---------------------------- MODULE Spec2Model ----------------------------
(***************************************************************************)
(* Flight Delay Dashboard (flight_data.py and the Streamlit pages): the    *)
(* loader, the filter, the aggregator and the statistics of the            *)
(* "Statistische Analyse" page, over exact rational arithmetic.            *)
(*                                                                         *)
(* A numeric cell is a pair <<n, d>>: with d > 0 it is the number n/d in   *)
(* lowest terms; d = 0 is a cell holding no finite number: <<0, 0>> is NaN *)
(* (a blank cell, or any non-finite float), <<1, 0>> is text that does not *)
(* parse as a number (it only occurs in the raw file).                     *)
(***************************************************************************)
EXTENDS Integers, Sequences, FiniteSets, TLC

\* ------------------------------------------------------------------------
\* Bounds of the model
\* ------------------------------------------------------------------------
\* longest flights.csv / longest table handed to a function
MaxRows == 3
\* largest departure hour drawn for the inputs of the statistics
MaxHour == 1
\* largest delay (minutes) drawn for the inputs of the statistics
MaxDelay == 1

\* ------------------------------------------------------------------------
\* Exact rationals (the floats of numpy / pandas, without rounding)
\* ------------------------------------------------------------------------
NaN == <<0, 0>>
Text == <<1, 0>>

Abs(i) == IF i < 0 THEN -i ELSE i

RECURSIVE Gcd(_, _)
Gcd(a, b) == IF b = 0 THEN a ELSE Gcd(b, a % b)

\* n/d in lowest terms with a positive denominator; d = 0 gives NaN
Rat(n, d) ==
    IF d = 0 THEN NaN
    ELSE LET g == Gcd(Abs(n), Abs(d))
             s == IF d < 0 THEN -1 ELSE 1
         IN  <<(s * n) \div g, (s * d) \div g>>

Num(i) == <<i, 1>>
IsFinite(v) == v[2] > 0
IsNaN(v) == v[2] = 0

\* sums and products are formed over the least common denominator and after
\* cancelling common factors, which keeps the intermediate integers small
RAdd(a, b) == IF IsNaN(a) \/ IsNaN(b) THEN NaN
              ELSE LET g == Gcd(a[2], b[2])
                   IN  Rat(a[1] * (b[2] \div g) + b[1] * (a[2] \div g),
                           (a[2] \div g) * b[2])
RSub(a, b) == IF IsNaN(a) \/ IsNaN(b) THEN NaN
              ELSE LET g == Gcd(a[2], b[2])
                   IN  Rat(a[1] * (b[2] \div g) - b[1] * (a[2] \div g),
                           (a[2] \div g) * b[2])
RMul(a, b) == IF IsNaN(a) \/ IsNaN(b) THEN NaN
              ELSE LET g == Gcd(Abs(a[1]), b[2])
                       h == Gcd(Abs(b[1]), a[2])
                   IN  Rat((a[1] \div g) * (b[1] \div h),
                           (a[2] \div h) * (b[2] \div g))
\* float division: x/0 is inf or NaN, never a finite number
RDiv(a, b) == IF IsNaN(a) \/ IsNaN(b) \/ b[1] = 0 THEN NaN
              ELSE RMul(a, IF b[1] < 0 THEN <<-b[2], -b[1]>> ELSE <<b[2], b[1]>>)
RSq(a) == RMul(a, a)
\* comparisons of floats: any comparison with NaN is false
RLt(a, b) == IsFinite(a) /\ IsFinite(b) /\ a[1] * b[2] < b[1] * a[2]
RLe(a, b) == IsFinite(a) /\ IsFinite(b) /\ a[1] * b[2] <= b[1] * a[2]
RGt(a, b) == RLt(b, a)
RGe(a, b) == RLe(b, a)
REq(a, b) == IsFinite(a) /\ IsFinite(b) /\ a[1] * b[2] = b[1] * a[2]

\* ------------------------------------------------------------------------
\* Sequences
\* ------------------------------------------------------------------------
MapSeq(s, F(_)) == [i \in 1..Len(s) |-> F(s[i])]

RECURSIVE RSum(_)
RSum(s) == IF s = <<>> THEN Num(0) ELSE RAdd(Head(s), RSum(Tail(s)))

RECURSIVE ISum(_)
ISum(s) == IF s = <<>> THEN 0 ELSE Head(s) + ISum(Tail(s))

Range(s) == {s[i] : i \in 1..Len(s)}

\* the sequences over S of length 0..n
SeqsUpTo(S, n) == UNION {[1..k -> S] : k \in 0..n}


\* ------------------------------------------------------------------------
\* Tables (pandas DataFrame): a set of column names and a sequence of rows,
\* each row a record over exactly those columns
\* ------------------------------------------------------------------------
Table(cols, rows) == [cols |-> cols, rows |-> rows]

\* pd.DataFrame(): no columns, no rows
EmptyFrame == Table({}, <<>>)

\* DataFrame.empty: some axis has length 0
IsEmpty(df) == Len(df.rows) = 0 \/ df.cols = {}

NRows(df) == Len(df.rows)

Restrict(row, cols) == [c \in cols |-> row[c]]

\* df[mask]: the rows that satisfy Keep, in order, same columns
Where(df, Keep(_)) == Table(df.cols, SelectSeq(df.rows, Keep))

\* df[col] = F(row), for a column that may be new
WithColumn(df, col, F(_)) ==
    Table(df.cols \cup {col},
          [i \in 1..Len(df.rows) |->
              [c \in df.cols \cup {col} |->
                  IF c = col THEN F(df.rows[i]) ELSE df.rows[i][c]]])

\* ------------------------------------------------------------------------
\* flight_data.py
\* ------------------------------------------------------------------------
numeric_cols == {"SCHEDULED_DEPARTURE", "DEPARTURE_DELAY", "ARRIVAL_DELAY",
                 "WEATHER_DELAY", "LATE_AIRCRAFT_DELAY"}

\* pd.to_numeric(errors="coerce"): what is no number becomes NaN
ToNumeric(c) == IF c[2] = 0 THEN NaN ELSE c

\* pd.read_csv(FLIGHTS_FILE, nrows=max_rows)
ReadCsv(f, nrows) ==
    Table(f.cols, SubSeq(f.rows, 1, IF nrows < Len(f.rows) THEN nrows ELSE Len(f.rows)))

Coerce(df) ==
    Table(df.cols,
          [i \in 1..Len(df.rows) |->
              [c \in df.cols |->
                  IF c \in numeric_cols THEN ToNumeric(df.rows[i][c])
                  ELSE df.rows[i][c]]])

DropCancelled(df) ==
    IF "CANCELLED" \in df.cols
    THEN Where(df, LAMBDA r : REq(r.CANCELLED, Num(0)))
    ELSE df

DropDiverted(df) ==
    IF "DIVERTED" \in df.cols
    THEN Where(df, LAMBDA r : REq(r.DIVERTED, Num(0)))
    ELSE df

\* dropna on SCHEDULED_DEPARTURE alone
DropNaDepartureOnly(df) ==
    LET drop_cols == {"SCHEDULED_DEPARTURE"} \cap df.cols
    IN  IF drop_cols # {}
        THEN Where(df, LAMBDA r : \A c \in drop_cols : ~IsNaN(r[c]))
        ELSE df

DropNa(df) ==
    LET drop_cols == {"ARRIVAL_DELAY", "SCHEDULED_DEPARTURE"} \cap df.cols
    IN  IF drop_cols # {}
        THEN Where(df, LAMBDA r : \A c \in drop_cols : ~IsNaN(r[c]))
        ELSE df

\* the hour without the upper clip
DepHourUnclipped(sd) ==
    LET h == sd[1] \div (100 * sd[2])
    IN  IF h < 0 THEN 0 ELSE h

\* (x // 100).clip(lower=0, upper=23).astype(int)
DepHour(sd) ==
    LET h == sd[1] \div (100 * sd[2])
    IN  IF h < 0 THEN 0 ELSE IF h > 23 THEN 23 ELSE h

\* fillna(0) > 0
Positive(v) == RGt(IF IsNaN(v) THEN Num(0) ELSE v, Num(0))

Derive(df) ==
    LET d1 == IF "SCHEDULED_DEPARTURE" \in df.cols
              THEN WithColumn(df, "dep_hour", LAMBDA r : DepHour(r.SCHEDULED_DEPARTURE))
              ELSE df
        d2 == IF "ARRIVAL_DELAY" \in d1.cols
              THEN WithColumn(d1, "is_late_15", LAMBDA r : RGt(r.ARRIVAL_DELAY, Num(15)))
              ELSE d1
        d3 == IF "WEATHER_DELAY" \in d2.cols
              THEN WithColumn(d2, "has_weather_delay", LAMBDA r : Positive(r.WEATHER_DELAY))
              ELSE d2
    IN  IF "LATE_AIRCRAFT_DELAY" \in d3.cols
        THEN WithColumn(d3, "has_late_aircraft_delay",
                        LAMBDA r : Positive(r.LATE_AIRCRAFT_DELAY))
        ELSE d3

load_flights(f, nrows) ==
    Derive(DropNa(DropDiverted(DropCancelled(Coerce(ReadCsv(f, nrows))))))


\* ------------------------------------------------------------------------
\* apply_filters (both pages)
\* ------------------------------------------------------------------------
\* Series.isin(values) on a numeric column: NaN matches nothing
IsIn(v, values) == \E m \in values : REq(v, m)

\* a filter whose last step tests the origin column once more
FilterStepsSwapped(df, ms, als, os, ds) ==
    LET o1 == IF ms # {} THEN Where(df, LAMBDA r : IsIn(r.MONTH, ms)) ELSE df
        o2 == IF als # {} THEN Where(o1, LAMBDA r : r.AIRLINE \in als) ELSE o1
        o3 == IF os # {} THEN Where(o2, LAMBDA r : r.ORIGIN_AIRPORT \in os) ELSE o2
    IN  IF ds # {} THEN Where(o3, LAMBDA r : r.ORIGIN_AIRPORT \in ds) ELSE o3

FilterSteps(df, ms, als, os, ds) ==
    LET o1 == IF ms # {} THEN Where(df, LAMBDA r : IsIn(r.MONTH, ms)) ELSE df
        o2 == IF als # {} THEN Where(o1, LAMBDA r : r.AIRLINE \in als) ELSE o1
        o3 == IF os # {} THEN Where(o2, LAMBDA r : r.ORIGIN_AIRPORT \in os) ELSE o2
    IN  IF ds # {} THEN Where(o3, LAMBDA r : r.DESTINATION_AIRPORT \in ds) ELSE o3

\* pages/03_Statistische_Analyse.py
apply_filters(df, ms, als, os, ds) ==
    IF IsEmpty(df) THEN EmptyFrame ELSE FilterSteps(df, ms, als, os, ds)

\* pages/02_Visualisaties.py (the selections are the module's globals)
apply_filters_vis(data, ms, als, os, ds) == FilterSteps(data, ms, als, os, ds)

\* ------------------------------------------------------------------------
\* Series reductions of pandas (NaN is skipped)
\* ------------------------------------------------------------------------
Column(df, col) == [i \in 1..Len(df.rows) |-> df.rows[i][col]]

Valid(s) == SelectSeq(s, IsFinite)

\* Series.mean(): NaN when no value is left
Mean(s) == RDiv(RSum(Valid(s)), Num(Len(Valid(s))))

RECURSIVE Insert(_, _)
Insert(v, s) ==
    IF s = <<>> THEN <<v>>
    ELSE IF RLe(v, Head(s)) THEN <<v>> \o s
         ELSE <<Head(s)>> \o Insert(v, Tail(s))

RECURSIVE Sorted(_)
Sorted(s) == IF s = <<>> THEN <<>> ELSE Insert(Head(s), Sorted(Tail(s)))

\* Series.quantile(q), linear interpolation between the order statistics
Quantile(s, q) ==
    LET v == Sorted(Valid(s))
        n == Len(v)
        pos == RMul(Num(n - 1), q)
        lo == pos[1] \div pos[2]
        frac == RSub(pos, Num(lo))
    IN  IF n = 0 THEN NaN
        ELSE IF frac[1] = 0 THEN v[lo + 1]
             ELSE RAdd(v[lo + 1], RMul(frac, RSub(v[lo + 2], v[lo + 1])))

\* Series.median()
Median(s) == Quantile(s, Rat(1, 2))

\* the variance with ddof = 0
VarPopulation(s) ==
    LET v == Valid(s)
        m == Mean(v)
    IN  IF Len(v) < 1 THEN NaN
        ELSE RDiv(RSum([i \in 1..Len(v) |-> RSq(RSub(v[i], m))]), Num(Len(v)))

\* Series.var(), ddof = 1: NaN with fewer than two values
Var(s) ==
    LET v == Valid(s)
        m == Mean(v)
    IN  IF Len(v) < 2 THEN NaN
        ELSE RDiv(RSum([i \in 1..Len(v) |-> RSq(RSub(v[i], m))]), Num(Len(v) - 1))

\* Series.clip(lower, upper): NaN stays, a NaN bound does not clip
Clip(v, lower, upper) ==
    IF IsNaN(v) THEN v
    ELSE LET a == IF IsFinite(lower) /\ RLt(v, lower) THEN lower ELSE v
         IN  IF IsFinite(upper) /\ RGt(a, upper) THEN upper ELSE a

\* the hours from the latest to the earliest
RECURSIVE SortedIntsDescending(_)
SortedIntsDescending(S) ==
    IF S = {} THEN <<>>
    ELSE LET m == CHOOSE x \in S : \A y \in S : x >= y
         IN  <<m>> \o SortedIntsDescending(S \ {m})

\* the group keys in ascending order
RECURSIVE SortedInts(_)
SortedInts(S) ==
    IF S = {} THEN <<>>
    ELSE LET m == CHOOSE x \in S : \A y \in S : x <= y
         IN  <<m>> \o SortedInts(S \ {m})

\* ------------------------------------------------------------------------
\* pages/03_Statistische_Analyse.py: winsorize_delays, hub_flag
\* ------------------------------------------------------------------------
\* a clip of every column to the bounds of ARRIVAL_DELAY
ClipColumnShared(df, col, pct) ==
    LET lower == Quantile(Column(df, "ARRIVAL_DELAY"), Rat(pct, 100))
        upper == Quantile(Column(df, "ARRIVAL_DELAY"), RSub(Num(1), Rat(pct, 100)))
    IN  WithColumn(df, col, LAMBDA r : Clip(r[col], lower, upper))

\* lines 43-46: the column clipped to its own quantiles
ClipColumn(df, col, pct) ==
    LET lower == Quantile(Column(df, col), Rat(pct, 100))
        upper == Quantile(Column(df, col), RSub(Num(1), Rat(pct, 100)))
    IN  WithColumn(df, col, LAMBDA r : Clip(r[col], lower, upper))

winsorize_delays(df, pct) ==
    IF IsEmpty(df) \/ pct <= 0 THEN df
    ELSE ClipColumn(ClipColumn(df, "ARRIVAL_DELAY", pct), "DEPARTURE_DELAY", pct)

\* df["ORIGIN_AIRPORT"].value_counts()
OriginCount(df, o) ==
    Len(SelectSeq(df.rows, LAMBDA r : r.ORIGIN_AIRPORT = o))

Origins(df) == {df.rows[i].ORIGIN_AIRPORT : i \in 1..Len(df.rows)}

RECURSIVE CountsOf(_, _)
CountsOf(df, S) ==
    IF S = {} THEN <<>>
    ELSE LET o == CHOOSE x \in S : TRUE
         IN  <<Num(OriginCount(df, o))>> \o CountsOf(df, S \ {o})

\* the quantile without interpolation, the order statistic below it
HubThresholdLower(df, quantile) ==
    LET v == Sorted(CountsOf(df, Origins(df)))
        pos == RMul(Num(Len(v) - 1), quantile)
    IN  v[(pos[1] \div pos[2]) + 1]

\* line 154: counts.quantile(quantile)
HubThreshold(df, quantile) == Quantile(CountsOf(df, Origins(df)), quantile)

hub_flag(df, quantile) ==
    IF IsEmpty(df) \/ "ORIGIN_AIRPORT" \notin df.cols THEN df
    ELSE IF Origins(df) = {} THEN df
    ELSE LET threshold == HubThreshold(df, quantile)
             hubs == {o \in Origins(df) : RGe(Num(OriginCount(df, o)), threshold)}
         IN  WithColumn(df, "is_hub", LAMBDA r : r.ORIGIN_AIRPORT \in hubs)

\* ------------------------------------------------------------------------
\* hourly_summary (both pages)
\* ------------------------------------------------------------------------
Hours(df) == {df.rows[i].dep_hour : i \in 1..Len(df.rows)}

\* a grouping that keeps one row per hour
GroupFirst(df, h) ==
    LET g == SelectSeq(df.rows, LAMBDA r : r.dep_hour = h)
    IN  SubSeq(g, 1, 1)

\* groupby("dep_hour"): the rows of hour h
Group(df, h) == SelectSeq(df.rows, LAMBDA r : r.dep_hour = h)

Field(rows, col) == [i \in 1..Len(rows) |-> rows[i][col]]

\* the mean of a boolean column
Share(rows, col) ==
    Rat(Len(SelectSeq(rows, LAMBDA r : r[col])), Len(rows))

HourlyColsEmpty == {"dep_hour", "mean_arr_delay", "median_arr_delay",
                    "weather_share_pct", "flights"}

HourlyRow(df, h) ==
    LET g == Group(df, h)
    IN  [dep_hour |-> h,
         mean_arr_delay |-> Mean(Field(g, "ARRIVAL_DELAY")),
         median_arr_delay |-> Median(Field(g, "ARRIVAL_DELAY")),
         weather_share |-> Share(g, "has_weather_delay"),
         flights |-> Len(g),
         weather_share_pct |-> RMul(Share(g, "has_weather_delay"), Num(100))]

\* pages/03_Statistische_Analyse.py
hourly_summary(df) ==
    IF IsEmpty(df) THEN Table(HourlyColsEmpty, <<>>)
    ELSE LET hs == SortedInts(Hours(df))
         IN  Table(HourlyColsEmpty \cup {"weather_share"},
                   [i \in 1..Len(hs) |-> HourlyRow(df, hs[i])])

HourlyColsVis == {"dep_hour", "mean_arr_delay", "median_arr_delay",
                  "weather_share", "late_aircraft_share", "flights",
                  "weather_share_pct", "late_aircraft_share_pct"}

HourlyRowVis(df, h) ==
    LET g == Group(df, h)
    IN  [dep_hour |-> h,
         mean_arr_delay |-> Mean(Field(g, "ARRIVAL_DELAY")),
         median_arr_delay |-> Median(Field(g, "ARRIVAL_DELAY")),
         weather_share |-> Share(g, "has_weather_delay"),
         late_aircraft_share |-> Share(g, "has_late_aircraft_delay"),
         flights |-> Len(g),
         weather_share_pct |-> RMul(Share(g, "has_weather_delay"), Num(100)),
         late_aircraft_share_pct |->
             RMul(Share(g, "has_late_aircraft_delay"), Num(100))]

\* pages/02_Visualisaties.py
hourly_summary_vis(df) ==
    IF IsEmpty(df) THEN Table(HourlyColsVis, <<>>)
    ELSE LET hs == SortedInts(Hours(df))
         IN  Table(HourlyColsVis, [i \in 1..Len(hs) |-> HourlyRowVis(df, hs[i])])

\* ------------------------------------------------------------------------
\* The statistics of pages/03_Statistische_Analyse.py.  A call returns
\* [exc, ret]: exc is the exception it raised ("" when it returned), ret the
\* value it returned.
\* ------------------------------------------------------------------------
\* Python's None
None == <<>>

TrendNA == [slope |-> None, r2 |-> None]
AnovaNA == [f_stat |-> None, p_value |-> None, effect_size |-> None]

Return(v) == [exc |-> "", ret |-> v]
Raise(e) == [exc |-> e, ret |-> None]

Dot(a, b) == RSum([i \in 1..Len(a) |-> RMul(a[i], b[i])])

\* the line with its coefficients lowest degree first, as
\* numpy.polynomial.polynomial.polyfit returns them
PolyfitAscending(x, y, raises) ==
    LET n == Num(Len(x))
        ones == [i \in 1..Len(x) |-> Num(1)]
        sx == Dot(x, ones)
        sy == Dot(y, ones)
        sxx == Dot(x, x)
        sxy == Dot(x, y)
        det == RSub(RMul(n, sxx), RSq(sx))
    IN  IF det[1] # 0
        THEN Return([intercept |-> RDiv(RSub(RMul(n, sxy), RMul(sx, sy)), det),
                     slope |-> RDiv(RSub(RMul(sxx, sy), RMul(sx, sxy)), det)])
        ELSE IF raises THEN Raise("LinAlgError")
        ELSE Return([slope |-> NaN, intercept |-> NaN])

\* np.polyfit(x, y, 1) for len(x) >= 2: the least-squares line.  With two
\* distinct x it is the solution of the normal equations.  With a single
\* distinct x = c the Vandermonde matrix has rank 1 and lstsq returns the
\* minimum-norm solution of the column-scaled system, slope = mean(y)/(2c) and
\* intercept = mean(y)/2; for c = 0 the scaling divides the zero column by its
\* zero norm, the matrix holds NaN, and lstsq raises LinAlgError ("SVD did not
\* converge") or returns NaN, depending on the LAPACK build.
Polyfit(x, y, raises) ==
    LET n == Num(Len(x))
        ones == [i \in 1..Len(x) |-> Num(1)]
        sx == Dot(x, ones)
        sy == Dot(y, ones)
        sxx == Dot(x, x)
        sxy == Dot(x, y)
        det == RSub(RMul(n, sxx), RSq(sx))
    IN  IF det[1] # 0
        THEN Return([slope |-> RDiv(RSub(RMul(n, sxy), RMul(sx, sy)), det),
                     intercept |-> RDiv(RSub(RMul(sxx, sy), RMul(sx, sxy)), det)])
        ELSE IF x[1][1] # 0
        THEN Return([slope |-> RDiv(sy, RMul(Num(2), RMul(x[1], n))),
                     intercept |-> RDiv(sy, RMul(Num(2), n))])
        ELSE IF raises THEN Raise("LinAlgError")
        ELSE Return([slope |-> NaN, intercept |-> NaN])

\* the fit unpacked as "intercept, slope = np.polyfit(x, y, 1)"
TrendOfSwapped(x, y, raises) ==
    IF Len(x) < 2 THEN Return(TrendNA)
    ELSE LET fit == Polyfit(x, y, raises)
         IN  IF fit.exc # "" THEN Raise(fit.exc)
             ELSE LET slope == fit.ret.intercept
                      intercept == fit.ret.slope
                      y_pred == [i \in 1..Len(x) |-> RAdd(RMul(slope, x[i]), intercept)]
                      mean_y == Mean(y)
                      ss_tot == RSum([i \in 1..Len(y) |-> RSq(RSub(y[i], mean_y))])
                      ss_res == RSum([i \in 1..Len(y) |-> RSq(RSub(y[i], y_pred[i]))])
                      r2 == IF ss_tot # Num(0)
                            THEN RSub(Num(1), RDiv(ss_res, ss_tot))
                            ELSE None
                  IN  Return([slope |-> slope, r2 |-> r2])

\* lines 78-85 and 100-107: the fit and R2 on the masked pairs
TrendOf(x, y, raises) ==
    IF Len(x) < 2 THEN Return(TrendNA)
    ELSE LET fit == Polyfit(x, y, raises)
         IN  IF fit.exc # "" THEN Raise(fit.exc)
             ELSE LET slope == fit.ret.slope
                      intercept == fit.ret.intercept
                      y_pred == [i \in 1..Len(x) |-> RAdd(RMul(slope, x[i]), intercept)]
                      mean_y == Mean(y)
                      ss_tot == RSum([i \in 1..Len(y) |-> RSq(RSub(y[i], mean_y))])
                      ss_res == RSum([i \in 1..Len(y) |-> RSq(RSub(y[i], y_pred[i]))])
                      r2 == IF ss_tot # Num(0)
                            THEN RSub(Num(1), RDiv(ss_res, ss_tot))
                            ELSE None
                  IN  Return([slope |-> slope, r2 |-> r2])

\* the positions where both x and y are finite
Mask(x, y) == {i \in 1..Len(x) : IsFinite(x[i]) /\ IsFinite(y[i])}

RECURSIVE Pick(_, _, _)
Pick(s, keep, i) ==
    IF i > Len(s) THEN <<>>
    ELSE IF i \in keep THEN <<s[i]>> \o Pick(s, keep, i + 1)
         ELSE Pick(s, keep, i + 1)

Masked(s, keep) == Pick(s, keep, 1)

HourColumn(df) == [i \in 1..Len(df.rows) |-> Num(df.rows[i].dep_hour)]

linear_trend_dep_hour(df, raises) ==
    IF IsEmpty(df) \/ Cardinality(Hours(df)) < 2 THEN Return(TrendNA)
    ELSE LET x == HourColumn(df)
             y == Column(df, "ARRIVAL_DELAY")
             mask == Mask(x, y)
         IN  TrendOf(Masked(x, mask), Masked(y, mask), raises)

\* arr.groupby([MONTH, DAY_OF_WEEK]).transform("mean"): the mean of the row's
\* group; NaN for a row with a null key
GroupMean(df, r) ==
    IF IsNaN(r.MONTH) \/ IsNaN(r.DAY_OF_WEEK) THEN NaN
    ELSE Mean(Field(SelectSeq(df.rows,
                              LAMBDA q : /\ REq(q.MONTH, r.MONTH)
                                         /\ REq(q.DAY_OF_WEEK, r.DAY_OF_WEEK)),
                    "ARRIVAL_DELAY"))

controlled_trend(df, raises) ==
    IF \/ IsEmpty(df)
       \/ Cardinality(Hours(df)) < 2
       \/ ~({"dep_hour", "ARRIVAL_DELAY", "MONTH", "DAY_OF_WEEK"} \subseteq df.cols)
    THEN Return(TrendNA)
    ELSE LET x == HourColumn(df)
             y == [i \in 1..Len(df.rows) |->
                      RSub(df.rows[i].ARRIVAL_DELAY, GroupMean(df, df.rows[i]))]
             mask == Mask(x, y)
         IN  TrendOf(Masked(x, mask), Masked(y, mask), raises)

\* scipy.stats.f.sf(f_stat, df_between, df_within), kept symbolic
FDistSf(f_stat, df_between, df_within) == <<f_stat, df_between, df_within>>

\* a p-value that falls back to 1.0
PValueDefault(f_stat, df_between, df_within, has_scipy) ==
    IF has_scipy THEN FDistSf(f_stat, df_between, df_within) ELSE Num(1)

\* lines 129-135: None unless the import and the evaluation succeed
PValue(f_stat, df_between, df_within, has_scipy) ==
    IF has_scipy THEN FDistSf(f_stat, df_between, df_within) ELSE None

\* a sum that a NaN term turns into NaN
PlainSum(s) == RSum(s)

\* Series.sum(): NaN terms are skipped
NanSum(s) == RSum(Valid(s))

anova_dep_hour(df, has_scipy) ==
    IF IsEmpty(df) THEN Return(AnovaNA)
    ELSE LET hs == SortedInts(Hours(df))
             k == Len(hs)
             arr(i) == Field(Group(df, hs[i]), "ARRIVAL_DELAY")
             counts == [i \in 1..k |-> Num(Len(Group(df, hs[i])))]
             means == [i \in 1..k |-> Mean(arr(i))]
             overall_mean == Mean(Column(df, "ARRIVAL_DELAY"))
             ss_between ==
                 NanSum([i \in 1..k |->
                            RMul(RSq(RSub(means[i], overall_mean)), counts[i])])
             vars_ == [i \in 1..k |-> Var(arr(i))]
             ss_within ==
                 NanSum([i \in 1..k |-> RMul(vars_[i], RSub(counts[i], Num(1)))])
             df_between == k - 1
             df_within == Len(df.rows) - k
         IN  IF k < 2 THEN Return(AnovaNA)
             ELSE IF df_within <= 0 \/ RLe(ss_within, Num(0)) THEN Return(AnovaNA)
             ELSE LET f_stat == RDiv(RDiv(ss_between, Num(df_between)),
                                     RDiv(ss_within, Num(df_within)))
                      total == RAdd(ss_between, ss_within)
                      effect_size == IF RGt(total, Num(0))
                                     THEN RDiv(ss_between, total)
                                     ELSE None
                      p_value == PValue(f_stat, df_between, df_within, has_scipy)
                  IN  Return([f_stat |-> f_stat, p_value |-> p_value,
                              effect_size |-> effect_size])

\* DataFrame.corr() of two columns, the entry [0, 1]: Pearson's r over the rows
\* where both are present, NaN when a variance is zero or no row is left.  r is
\* kept exact as <<sign, n, d>>, r = sign * sqrt(n/d).
Pearson(xs, ys) ==
    LET mask == Mask(xs, ys)
        x == Masked(xs, mask)
        y == Masked(ys, mask)
        n == Num(Len(x))
        ones == [i \in 1..Len(x) |-> Num(1)]
        cxy == RSub(RMul(n, Dot(x, y)), RMul(Dot(x, ones), Dot(y, ones)))
        cxx == RSub(RMul(n, Dot(x, x)), RSq(Dot(x, ones)))
        cyy == RSub(RMul(n, Dot(y, y)), RSq(Dot(y, ones)))
        divisor2 == RMul(cxx, cyy)
        r2 == RDiv(RSq(cxy), divisor2)
    IN  IF Len(x) < 1 \/ divisor2[1] = 0 THEN NaN
        ELSE <<IF cxy[1] < 0 THEN -1 ELSE IF cxy[1] > 0 THEN 1 ELSE 0,
               r2[1], r2[2]>>

\* the correlation returned as computed, NaN included
safe_corr_unchecked(df, col_x, col_y) ==
    IF IsEmpty(df) \/ col_x \notin df.cols \/ col_y \notin df.cols THEN Return(None)
    ELSE Return(Pearson(Column(df, col_x), Column(df, col_y)))

safe_corr(df, col_x, col_y) ==
    IF IsEmpty(df) \/ col_x \notin df.cols \/ col_y \notin df.cols THEN Return(None)
    ELSE LET corr == Pearson(Column(df, col_x), Column(df, col_y))
         IN  Return(IF corr = NaN THEN None ELSE corr)

\* ------------------------------------------------------------------------
\* State
\* ------------------------------------------------------------------------
VARIABLES
    pc,             \* where the running script is
    file,           \* the content of data/flights.csv
    row_limit,      \* the sidebar's "Rijen laden"
    df_raw,         \* load_flights(row_limit)
    months, airlines, origins, destinations,   \* the sidebar's selections
    trim_pct,       \* the sidebar's "Winsorisatie (p%)"
    scipy,          \* whether scipy.stats.f can be imported and evaluated
    filtered_pre, filtered, hourly,
    trend_stats, ctrl_stats, anova_stats, corr_dep_arr,
    vis_filtered, vis_hourly,                  \* pages/02_Visualisaties.py
    done,           \* the statements of the pass that have completed
    error,          \* the exception that ended the script, "" when none
    shown,          \* what the Hypothesis-1 tab shows, <<>> before it is rendered
    heap,           \* the DataFrame objects, a reference being a position
    last,           \* the last call on an object: function, argument, result, heap before
    disk,           \* data/flights.csv on disk: whether it exists, and its rows
    cache,          \* the st.cache_data stores of load_flights and load_preview
    threads,        \* the sessions' script threads inside load_flights
    vis_airports    \* pages/02_Visualisaties.py: the data of the airport chart

vars == <<pc, file, row_limit, df_raw, months, airlines, origins, destinations,
          trim_pct, scipy, filtered_pre, filtered, hourly,
          trend_stats, ctrl_stats, anova_stats, corr_dep_arr,
          vis_filtered, vis_hourly, done, error, shown, heap, last,
          disk, cache, threads, vis_airports>>

\* no data/flights.csv on disk
Missing == [exists |-> FALSE, rows |-> <<>>]

\* nothing cached
NoCache == [flights |-> <<>>, preview |-> <<>>, asked |-> {}]

\* the specifications that take the loaded file as given
Offline == disk = Missing /\ cache = NoCache /\ threads = <<>>

\* no airport chart built yet
NoCharts == vis_airports = <<>>

\* no call on an object yet
NoCall == [fn |-> "", arg |-> 0, ret |-> 0, pre |-> <<>>]

\* the columns of flights.csv the dashboard reads
RawCols == {"MONTH", "DAY_OF_WEEK", "AIRLINE", "ORIGIN_AIRPORT",
            "DESTINATION_AIRPORT", "SCHEDULED_DEPARTURE", "DEPARTURE_DELAY",
            "ARRIVAL_DELAY", "WEATHER_DELAY", "LATE_AIRCRAFT_DELAY",
            "CANCELLED", "DIVERTED"}

\* an on-time flight; the inputs below vary its cells
BaseRow ==
    [MONTH |-> Num(1), DAY_OF_WEEK |-> Num(1), AIRLINE |-> "AA",
     ORIGIN_AIRPORT |-> "ATL", DESTINATION_AIRPORT |-> "JFK",
     SCHEDULED_DEPARTURE |-> Num(30), DEPARTURE_DELAY |-> Num(0),
     ARRIVAL_DELAY |-> Num(0), WEATHER_DELAY |-> NaN,
     LATE_AIRCRAFT_DELAY |-> NaN, CANCELLED |-> Num(0), DIVERTED |-> Num(0)]

\* what every specification starts from, apart from its own inputs
Blank ==
    /\ pc = "start"
    /\ filtered_pre = EmptyFrame /\ filtered = EmptyFrame /\ hourly = EmptyFrame
    /\ vis_filtered = EmptyFrame /\ vis_hourly = EmptyFrame
    /\ trend_stats = TrendNA /\ ctrl_stats = TrendNA /\ anova_stats = AnovaNA
    /\ corr_dep_arr = None
    /\ done = {} /\ error = "" /\ shown = <<>> /\ heap = <<>> /\ last = NoCall /\ Offline /\ NoCharts

NoSelection == months = {} /\ airlines = {} /\ origins = {} /\ destinations = {}

\* ------------------------------------------------------------------------
\* The load (line 271) and the recomputation pass (lines 321-325) of
\* pages/03_Statistische_Analyse.py: one action per statement.  An exception ends the script; whether lstsq
\* raises on a NaN matrix or returns NaN depends on the LAPACK build, and both
\* outcomes are taken.
\* ------------------------------------------------------------------------
Inputs == <<file, row_limit, df_raw, months, airlines, origins, destinations,
            trim_pct, scipy>>

\* df_raw = load_flights(int(row_limit))
Load ==
    /\ pc = "start"
    /\ df_raw' = load_flights(file, row_limit)
    /\ pc' = "loaded"
    /\ done' = done \cup {"load_flights"}
    /\ UNCHANGED <<file, row_limit, months, airlines, origins, destinations,
                   trim_pct, scipy, filtered_pre, filtered, hourly,
                   trend_stats, ctrl_stats, anova_stats, corr_dep_arr,
                   vis_filtered, vis_hourly, error, shown, heap, last,
                   disk, cache, threads, vis_airports>>

\* hourly = hourly_summary(filtered)
Hourly ==
    /\ pc = "hourly_summary"
    /\ hourly' = hourly_summary(filtered)
    /\ pc' = "linear_trend_dep_hour"
    /\ done' = done \cup {"hourly_summary"}
    /\ UNCHANGED <<Inputs, filtered_pre, filtered, trend_stats, ctrl_stats,
                   anova_stats, corr_dep_arr, vis_filtered, vis_hourly, error, shown, heap, last,
                   disk, cache, threads, vis_airports>>

\* trend_stats = linear_trend_dep_hour(filtered)
Trend ==
    /\ pc = "linear_trend_dep_hour"
    /\ \E raises \in BOOLEAN :
       LET call == linear_trend_dep_hour(filtered, raises)
       IN  IF call.exc # ""
           THEN /\ error' = call.exc /\ pc' = "crashed"
                /\ UNCHANGED <<trend_stats, done>>
           ELSE /\ trend_stats' = call.ret /\ pc' = "controlled_trend"
                /\ done' = done \cup {"linear_trend_dep_hour"}
                /\ UNCHANGED error
    /\ UNCHANGED <<Inputs, filtered_pre, filtered, hourly, ctrl_stats,
                   anova_stats, corr_dep_arr, vis_filtered, vis_hourly, shown, heap, last,
                   disk, cache, threads, vis_airports>>

\* ctrl_stats = controlled_trend(filtered)
Ctrl ==
    /\ pc = "controlled_trend"
    /\ \E raises \in BOOLEAN :
       LET call == controlled_trend(filtered, raises)
       IN  IF call.exc # ""
           THEN /\ error' = call.exc /\ pc' = "crashed"
                /\ UNCHANGED <<ctrl_stats, done>>
           ELSE /\ ctrl_stats' = call.ret /\ pc' = "anova_dep_hour"
                /\ done' = done \cup {"controlled_trend"}
                /\ UNCHANGED error
    /\ UNCHANGED <<Inputs, filtered_pre, filtered, hourly, trend_stats,
                   anova_stats, corr_dep_arr, vis_filtered, vis_hourly, shown, heap, last,
                   disk, cache, threads, vis_airports>>

\* anova_stats = anova_dep_hour(filtered)
Anova ==
    /\ pc = "anova_dep_hour"
    /\ anova_stats' = anova_dep_hour(filtered, scipy).ret
    /\ pc' = "safe_corr"
    /\ done' = done \cup {"anova_dep_hour"}
    /\ UNCHANGED <<Inputs, filtered_pre, filtered, hourly, trend_stats,
                   ctrl_stats, corr_dep_arr, vis_filtered, vis_hourly, error, shown, heap, last,
                   disk, cache, threads, vis_airports>>

\* corr_dep_arr = safe_corr(filtered, "DEPARTURE_DELAY", "ARRIVAL_DELAY")
Corr ==
    /\ pc = "safe_corr"
    /\ corr_dep_arr' = safe_corr(filtered, "DEPARTURE_DELAY", "ARRIVAL_DELAY").ret
    /\ pc' = "render"
    /\ done' = done \cup {"safe_corr"}
    /\ UNCHANGED <<Inputs, filtered_pre, filtered, hourly, trend_stats,
                   ctrl_stats, anova_stats, vis_filtered, vis_hourly, error, shown, heap, last,
                   disk, cache, threads, vis_airports>>

\* a table with the loader's columns, its rows built from BaseRow
Loaded(rows) == Derive(Table(RawCols, rows))

\* a statement of the pass, reached with a given filtered table
InitPass(tables, at) ==
    /\ filtered \in tables
    /\ pc = at
    /\ file = EmptyFrame /\ row_limit = 0 /\ df_raw = EmptyFrame
    /\ NoSelection /\ trim_pct = 0
    /\ filtered_pre = filtered /\ hourly = EmptyFrame
    /\ vis_filtered = EmptyFrame /\ vis_hourly = EmptyFrame
    /\ trend_stats = TrendNA /\ ctrl_stats = TrendNA /\ anova_stats = AnovaNA
    /\ corr_dep_arr = None
    /\ done = {} /\ error = "" /\ shown = <<>> /\ heap = <<>> /\ last = NoCall /\ Offline /\ NoCharts

\* ------------------------------------------------------------------------
\* Spec: one run of a page's script on a flights.csv.  The statistics page
\* loads, reads the sidebar, stops on an empty table, filters, winsorizes,
\* flags the hubs and runs the pass; the visualisations page loads, reads the
\* sidebar, filters and summarises per hour.
\* ------------------------------------------------------------------------
\* longest flights.csv of Spec
PageRows == 3
\* the sidebar's winsorisation percentage when it is not 0 (the slider: 0..10)
TrimPct == 10

PageRowSet ==
    {[BaseRow EXCEPT !.SCHEDULED_DEPARTURE = sd, !.ARRIVAL_DELAY = ad,
                     !.DAY_OF_WEEK = dw, !.ORIGIN_AIRPORT = o] :
        sd \in {Num(30), Num(130)}, ad \in {Num(0), Num(2)},
        dw \in {Num(1), NaN}, o \in {"ATL", "ORD"}}

Init ==
    /\ Blank /\ NoSelection
    /\ file \in {Table(RawCols, rows) : rows \in SeqsUpTo(PageRowSet, PageRows)}
    /\ row_limit = PageRows
    /\ df_raw = EmptyFrame
    /\ trim_pct = 0
    /\ scipy = TRUE

\* sorted(df_raw[col].dropna().unique().tolist()) if not df_raw.empty else []
NumOptions(df, col) ==
    IF IsEmpty(df) THEN {}
    ELSE {df.rows[i][col] : i \in {j \in 1..Len(df.rows) : IsFinite(df.rows[j][col])}}

CodeOptions(df, col) ==
    IF IsEmpty(df) THEN {} ELSE {df.rows[i][col] : i \in 1..Len(df.rows)}

\* lines 259-308: the slider and the multiselects; months is left at its
\* default, all its options, airlines and destinations at theirs, none
Sidebar ==
    /\ pc = "loaded"
    /\ trim_pct' \in {0, TrimPct}
    /\ months' = NumOptions(df_raw, "MONTH")
    /\ origins' \in {{}} \cup {{o} : o \in CodeOptions(df_raw, "ORIGIN_AIRPORT")}
    /\ airlines' = {} /\ destinations' = {}
    /\ pc' = "sidebar"
    /\ UNCHANGED <<file, row_limit, df_raw, scipy, filtered_pre, filtered,
                   hourly, trend_stats, ctrl_stats, anova_stats, corr_dep_arr,
                   vis_filtered, vis_hourly, done, error, shown, heap, last,
                   disk, cache, threads, vis_airports>>

Results == <<hourly, trend_stats, ctrl_stats, anova_stats, corr_dep_arr,
             vis_filtered, vis_hourly>>

\* lines 314-316: st.stop() on an empty table
StopEmpty ==
    /\ pc = "sidebar" /\ IsEmpty(df_raw)
    /\ pc' = "stopped"
    /\ UNCHANGED <<Inputs, filtered_pre, filtered, Results, done, error, shown, heap, last,
                   disk, cache, threads, vis_airports>>

\* line 318
Filter ==
    /\ pc = "sidebar" /\ ~IsEmpty(df_raw)
    /\ filtered_pre' = apply_filters(df_raw, months, airlines, origins, destinations)
    /\ pc' = "winsorize_delays"
    /\ done' = done \cup {"apply_filters"}
    /\ UNCHANGED <<Inputs, filtered, Results, error, shown, heap, last,
                   disk, cache, threads, vis_airports>>

\* line 319
Winsorize ==
    /\ pc = "winsorize_delays"
    /\ filtered' = winsorize_delays(filtered_pre, trim_pct)
    /\ pc' = "hub_flag"
    /\ done' = done \cup {"winsorize_delays"}
    /\ UNCHANGED <<Inputs, filtered_pre, Results, error, shown, heap, last,
                   disk, cache, threads, vis_airports>>

\* line 320
HubFlag ==
    /\ pc = "hub_flag"
    /\ filtered' = hub_flag(filtered, Rat(8, 10))
    /\ pc' = "hourly_summary"
    /\ done' = done \cup {"hub_flag"}
    /\ UNCHANGED <<Inputs, filtered_pre, Results, error, shown, heap, last,
                   disk, cache, threads, vis_airports>>

\* pages/02_Visualisaties.py, line 244
VisFilter ==
    /\ pc = "sidebar"
    /\ vis_filtered' = apply_filters_vis(df_raw, months, airlines, origins, destinations)
    /\ pc' = "vis_hourly_summary"
    /\ done' = done \cup {"apply_filters_vis"}
    /\ UNCHANGED <<Inputs, filtered_pre, filtered, hourly, trend_stats,
                   ctrl_stats, anova_stats, corr_dep_arr, vis_hourly, error, shown, heap, last,
                   disk, cache, threads, vis_airports>>

\* pages/02_Visualisaties.py, line 245
VisHourly ==
    /\ pc = "vis_hourly_summary"
    /\ vis_hourly' = hourly_summary_vis(vis_filtered)
    /\ pc' = "vis_render"
    /\ done' = done \cup {"hourly_summary_vis"}
    /\ UNCHANGED <<Inputs, filtered_pre, filtered, hourly, trend_stats,
                   ctrl_stats, anova_stats, corr_dep_arr, vis_filtered, error, shown, heap, last,
                   disk, cache, threads, vis_airports>>

\* ------------------------------------------------------------------------
\* The Hypothesis-1 tab, lines 347-349 and 394-411.  A label is a tuple:
\* <<"n.v.t.">>, <<"nan">> or <<"fixed", k, m>>, the text of m / 10^k with k
\* decimals.
\* ------------------------------------------------------------------------
NotApplicable == <<"n.v.t.">>

RECURSIVE Pow10(_)
Pow10(k) == IF k = 0 THEN 1 ELSE 10 * Pow10(k - 1)

\* v * 10^k rounded to the nearest integer, ties to even
RoundHalfEven(v, k) ==
    LET scaled == v[1] * Pow10(k)
        q == scaled \div v[2]
        r == scaled % v[2]
    IN  IF 2 * r < v[2] THEN q
        ELSE IF 2 * r > v[2] THEN q + 1
        ELSE IF q % 2 = 0 THEN q ELSE q + 1

\* f"{v:0.kf}": None has no such format and raises TypeError; a p-value stays
\* symbolic
Fixed(v, k) ==
    IF v = None THEN Raise("TypeError")
    ELSE IF v = NaN THEN Return(<<"nan">>)
    ELSE IF Len(v) = 3 THEN Return(<<"fixed", k, v>>)
    ELSE Return(<<"fixed", k, RoundHalfEven(v, k)>>)

\* f"{v:0.kf}" if v is not None else "n.v.t."
FixedOrNA(v, k) == IF v # None THEN Fixed(v, k) ELSE Return(NotApplicable)

\* lines 405-408: the ANOVA label, p appended when it is not None
LabelAnova(f_stat, p_val) ==
    LET f == FixedOrNA(f_stat, 2)
        p == IF p_val # None THEN Fixed(p_val, 3) ELSE Return(None)
    IN  IF f.exc # "" THEN f
        ELSE IF p.exc # "" THEN p
        ELSE Return([f |-> f.ret, p |-> p.ret])

\* lines 410-412: one f-string holding both ctrl_slope and ctrl_r2, evaluated
\* when ctrl_slope is not None
LabelCtrl(ctrl_slope, ctrl_r2) ==
    IF ctrl_slope # None
    THEN LET a == Fixed(ctrl_slope, 2)
             b == Fixed(ctrl_r2, 3)
         IN  IF a.exc # "" THEN a
             ELSE IF b.exc # "" THEN b
             ELSE Return([slope |-> a.ret, r2 |-> b.ret])
    ELSE Return(<<"niet beschikbaar">>)

TabH1(trend, ctrl, anova) ==
    LET c1 == FixedOrNA(trend.slope, 2)
        c2 == FixedOrNA(trend.r2, 3)
        c3 == LabelAnova(anova.f_stat, anova.p_value)
        md == LabelCtrl(ctrl.slope, ctrl.r2)
    IN  IF c1.exc # "" THEN c1
        ELSE IF c2.exc # "" THEN c2
        ELSE IF c3.exc # "" THEN c3
        ELSE IF md.exc # "" THEN md
        ELSE Return([trend |-> c1.ret, r2 |-> c2.ret, anova |-> c3.ret,
                     ctrl |-> md.ret])

RenderH1 ==
    /\ pc = "render"
    /\ IF IsEmpty(filtered)
       THEN /\ pc' = "stopped"
            /\ UNCHANGED <<shown, done, error>>
       ELSE LET call == TabH1(trend_stats, ctrl_stats, anova_stats)
            IN  IF call.exc # ""
                THEN /\ error' = call.exc /\ pc' = "crashed"
                     /\ UNCHANGED <<shown, done>>
                ELSE /\ shown' = call.ret /\ pc' = "rendered"
                     /\ done' = done \cup {"tab_h1"}
                     /\ UNCHANGED error
    /\ UNCHANGED <<Inputs, filtered_pre, filtered, Results, heap, last,
                   disk, cache, threads, vis_airports>>

Next ==
    \/ Load \/ Sidebar \/ StopEmpty \/ Filter \/ Winsorize \/ HubFlag
    \/ Hourly \/ Trend \/ Ctrl \/ Anova \/ Corr \/ RenderH1
    \/ VisFilter \/ VisHourly

Spec == Init /\ [][Next]_vars

\* ------------------------------------------------------------------------
\* SpecTrend: linear_trend_dep_hour on tables whose departure hours and arrival
\* delays vary; an ARRIVAL_DELAY may be non-finite (NaN stands for NaN and
\* +-inf, which np.isfinite treats alike)
\* ------------------------------------------------------------------------
HourValues == {Num(100 * h + 30) : h \in 0..MaxHour}
DelayValues == {Num(d) : d \in 0..MaxDelay}

TrendRowSet ==
    {[BaseRow EXCEPT !.SCHEDULED_DEPARTURE = sd, !.ARRIVAL_DELAY = ad] :
        sd \in HourValues, ad \in DelayValues \cup {NaN}}

InitTrend ==
    /\ InitPass({Loaded(rows) : rows \in SeqsUpTo(TrendRowSet, MaxRows)},
                "linear_trend_dep_hour")
    /\ scipy = TRUE

SpecTrend == InitTrend /\ [][Trend]_vars

\* the finite (dep_hour, ARRIVAL_DELAY) pairs of the table given to the pass
FinitePairs == {i \in 1..NRows(filtered) : IsFinite(filtered.rows[i].ARRIVAL_DELAY)}
FiniteHours == {filtered.rows[i].dep_hour : i \in FinitePairs}
TrendPrecondition == Cardinality(FinitePairs) >= 2 /\ Cardinality(FiniteHours) >= 2

\* C5 (as claimed): linear_trend_dep_hour returns slope = r2 = None whenever the
\* finite pairs are fewer than 2 or hold fewer than 2 distinct departure hours;
\* it never fits a line (nor fails) on such input.
C5_NotApplicable ==
    (pc # "linear_trend_dep_hour" /\ ~TrendPrecondition) =>
        /\ "linear_trend_dep_hour" \in done
        /\ trend_stats = TrendNA

\* ------------------------------------------------------------------------
\* SpecLoad: load_flights on every small flights.csv
\* ------------------------------------------------------------------------
\* longest flights.csv of SpecLoad
LoadRows == 2


LoadRowSet ==
    {[BaseRow EXCEPT !.SCHEDULED_DEPARTURE = sd, !.ARRIVAL_DELAY = ad,
                     !.CANCELLED = c, !.DIVERTED = d] :
        sd \in {Num(1230), Text}, ad \in {Num(20), NaN, Text},
        c \in {Num(0), Num(1), NaN}, d \in {Num(0), Num(1)}}

LoadColSets == {RawCols, RawCols \ {"CANCELLED"}, RawCols \ {"DIVERTED"},
                RawCols \ {"ARRIVAL_DELAY"}}

LoadFiles(n) ==
    {Table(cols, [i \in 1..Len(rows) |-> Restrict(rows[i], cols)]) :
        cols \in LoadColSets, rows \in SeqsUpTo(LoadRowSet, n)}

InitLoad ==
    /\ Blank /\ NoSelection
    /\ file \in LoadFiles(LoadRows)
    /\ row_limit \in 1..LoadRows
    /\ df_raw = EmptyFrame
    /\ trim_pct = 0 /\ scipy = TRUE

NextLoad == Load

SpecLoad == InitLoad /\ [][NextLoad]_vars

\* C1: after load_flights no record has CANCELLED = 1 or DIVERTED = 1 (when the
\* file has the column), and no record has a null ARRIVAL_DELAY or
\* SCHEDULED_DEPARTURE, cells that failed numeric coercion included.
C1_LoadedClean ==
    pc = "loaded" =>
        \A i \in 1..NRows(df_raw) :
            LET r == df_raw.rows[i]
            IN  /\ "CANCELLED" \in df_raw.cols => ~REq(r.CANCELLED, Num(1))
                /\ "DIVERTED" \in df_raw.cols => ~REq(r.DIVERTED, Num(1))
                /\ "ARRIVAL_DELAY" \in df_raw.cols => IsFinite(r.ARRIVAL_DELAY)
                /\ "SCHEDULED_DEPARTURE" \in df_raw.cols =>
                       IsFinite(r.SCHEDULED_DEPARTURE)

\* a load that dropped a cancelled flight and a flight with an unparseable
\* ARRIVAL_DELAY, and kept a flight
C1_Witness ==
    /\ pc = "loaded"
    /\ NRows(df_raw) = 1
    /\ Len(file.rows) = 2 /\ row_limit = 2
    /\ file.cols = RawCols
    /\ \E i \in 1..2 : file.rows[i].CANCELLED = Num(1) \/ file.rows[i].ARRIVAL_DELAY = Text


\* ------------------------------------------------------------------------
\* SpecFilter: apply_filters of both pages on every small loaded table
\* ------------------------------------------------------------------------
\* longest table of SpecFilter
FilterRows == 2

MonthOptions == {Num(1), Num(2)}
AirlineOptions == {"AA", "DL"}
OriginOptions == {"ATL", "ORD"}
DestOptions == {"JFK", "LAX"}

FilterRowSet ==
    {[BaseRow EXCEPT !.MONTH = m, !.AIRLINE = a, !.ORIGIN_AIRPORT = o,
                     !.DESTINATION_AIRPORT = d] :
        m \in MonthOptions, a \in AirlineOptions, o \in OriginOptions,
        d \in DestOptions}

\* the selections a multiselect can hold: none, one, or all of its options
Picks(options) == {{}, options} \cup {{CHOOSE x \in options : TRUE}}

InitFilter ==
    /\ Blank
    /\ file \in {Table(RawCols, rows) : rows \in SeqsUpTo(FilterRowSet, FilterRows)}
    /\ row_limit = FilterRows
    /\ df_raw = load_flights(file, row_limit)
    /\ months \in Picks(MonthOptions)
    /\ airlines \in Picks(AirlineOptions)
    /\ origins \in Picks(OriginOptions)
    /\ destinations \in Picks(DestOptions)
    /\ trim_pct = 0 /\ scipy = TRUE

\* filtered_pre = apply_filters(df_raw, months, airlines, origins, destinations)
CallApplyFilters ==
    /\ "apply_filters" \notin done
    /\ filtered_pre' = apply_filters(df_raw, months, airlines, origins, destinations)
    /\ done' = done \cup {"apply_filters"}
    /\ UNCHANGED <<pc, file, row_limit, df_raw, months, airlines, origins,
                   destinations, trim_pct, scipy, filtered, hourly,
                   trend_stats, ctrl_stats, anova_stats, corr_dep_arr,
                   vis_filtered, vis_hourly, error, shown, heap, last,
                   disk, cache, threads, vis_airports>>

\* filtered = apply_filters(df)     (pages/02_Visualisaties.py)
CallApplyFiltersVis ==
    /\ "apply_filters_vis" \notin done
    /\ vis_filtered' = apply_filters_vis(df_raw, months, airlines, origins, destinations)
    /\ done' = done \cup {"apply_filters_vis"}
    /\ UNCHANGED <<pc, file, row_limit, df_raw, months, airlines, origins,
                   destinations, trim_pct, scipy, filtered_pre,
                   filtered, hourly, trend_stats, ctrl_stats, anova_stats,
                   corr_dep_arr, vis_hourly, error, shown, heap, last,
                   disk, cache, threads, vis_airports>>

NextFilter == CallApplyFilters \/ CallApplyFiltersVis

SpecFilter == InitFilter /\ [][NextFilter]_vars

\* a row matches when, in every dimension with a selection, its value is selected
Matches(r) ==
    /\ months = {} \/ \E m \in months : REq(r.MONTH, m)
    /\ airlines = {} \/ r.AIRLINE \in airlines
    /\ origins = {} \/ r.ORIGIN_AIRPORT \in origins
    /\ destinations = {} \/ r.DESTINATION_AIRPORT \in destinations

\* C2: apply_filters (both pages) returns exactly the rows of its input that
\* match every dimension with a non-empty selection, in their order; a dimension
\* with an empty selection restricts nothing.
C2_ExactlyMatching ==
    /\ "apply_filters" \in done =>
           filtered_pre.rows = SelectSeq(df_raw.rows, Matches)
    /\ "apply_filters_vis" \in done =>
           vis_filtered.rows = SelectSeq(df_raw.rows, Matches)

\* two dimensions selected, one row kept and one dropped, on both pages
C2_Witness ==
    /\ done = {"apply_filters", "apply_filters_vis"}
    /\ months # {} /\ destinations # {} /\ airlines = {} /\ origins = {}
    /\ NRows(df_raw) = 2 /\ NRows(filtered_pre) = 1 /\ NRows(vis_filtered) = 1

\* C3 (as claimed): with all four selections empty the result of apply_filters
\* equals its input, rows and columns, on both pages, also for a table with no
\* rows.
C3_NoOp ==
    NoSelection =>
        /\ "apply_filters" \in done => filtered_pre = df_raw
        /\ "apply_filters_vis" \in done => vis_filtered = df_raw


\* the reference least-squares line through the pairs (x, y), in centred form:
\* its slope, SS_tot and SS_res
RefLine(x, y) ==
    LET mx == Mean(x)
        my == Mean(y)
        dx == [i \in 1..Len(x) |-> RSub(x[i], mx)]
        dy == [i \in 1..Len(y) |-> RSub(y[i], my)]
        slope == RDiv(Dot(dx, dy), Dot(dx, dx))
    IN  [slope |-> slope,
         ss_tot |-> Dot(dy, dy),
         ss_res |-> RSum([i \in 1..Len(y) |->
                             RSq(RSub(dy[i], RMul(slope, dx[i])))])]

\* C6: when at least 2 finite pairs with at least 2 distinct departure hours
\* exist, linear_trend_dep_hour returns the OLS slope
\* sum((x - mean x)(y - mean y)) / sum((x - mean x)^2) over the finite pairs and
\* r2 = 1 - SS_res/SS_tot, with r2 None exactly when SS_tot = 0.
C6_OlsSlopeAndR2 ==
    (pc # "linear_trend_dep_hour" /\ TrendPrecondition) =>
        LET ref == RefLine(Masked(HourColumn(filtered), FinitePairs),
                           Masked(Column(filtered, "ARRIVAL_DELAY"), FinitePairs))
        IN  /\ "linear_trend_dep_hour" \in done
            /\ trend_stats.slope = ref.slope
            /\ (ref.ss_tot = Num(0)) <=> (trend_stats.r2 = None)
            /\ ref.ss_tot # Num(0) =>
                   trend_stats.r2 = RSub(Num(1), RDiv(ref.ss_res, ref.ss_tot))

\* a fit over the finite pairs of a table that also holds a non-finite delay
C6_Witness ==
    /\ "linear_trend_dep_hour" \in done /\ TrendPrecondition
    /\ Cardinality(FinitePairs) < NRows(filtered)
    /\ RGt(trend_stats.slope, Num(0))
    /\ trend_stats.r2 = Num(1)

\* a fit with an r2 strictly between 0 and 1
C6_WitnessPartial ==
    /\ "linear_trend_dep_hour" \in done /\ TrendPrecondition
    /\ RLt(trend_stats.slope, Num(0))
    /\ trend_stats.r2 # None
    /\ RGt(trend_stats.r2, Num(0)) /\ RLt(trend_stats.r2, Num(1))

\* a fit of constant delays: a slope and no r2
C6_WitnessNoR2 ==
    /\ "linear_trend_dep_hour" \in done /\ TrendPrecondition
    /\ trend_stats.slope = Num(0) /\ trend_stats.r2 = None


\* ------------------------------------------------------------------------
\* SpecAnova: anova_dep_hour on tables as the loader returns them (every
\* ARRIVAL_DELAY finite), with and without scipy
\* ------------------------------------------------------------------------
\* longest table of SpecAnova
AnovaRows == 4

AnovaRowSet ==
    {[BaseRow EXCEPT !.SCHEDULED_DEPARTURE = sd, !.ARRIVAL_DELAY = ad] :
        sd \in {Num(30), Num(130)}, ad \in {Num(0), Num(1), Num(2)}}

InitAnova ==
    /\ InitPass({Loaded(rows) : rows \in SeqsUpTo(AnovaRowSet, AnovaRows)},
                "anova_dep_hour")
    /\ scipy \in BOOLEAN
   

SpecAnova == InitAnova /\ [][Anova]_vars

\* the one-way decomposition of the arrival delays by departure hour, from
\* the deviations: k groups, N rows, SS_between, SS_within
Decomposition(df) ==
    LET hs == SortedInts(Hours(df))
        all == Column(df, "ARRIVAL_DELAY")
        grand == RDiv(RSum(all), Num(Len(all)))
        ys(i) == Field(Group(df, hs[i]), "ARRIVAL_DELAY")
        gmean(i) == RDiv(RSum(ys(i)), Num(Len(ys(i))))
    IN  [k |-> Len(hs),
         N |-> Len(all),
         ss_between |->
             RSum([i \in 1..Len(hs) |->
                      RMul(Num(Len(ys(i))), RSq(RSub(gmean(i), grand)))]),
         ss_within |->
             RSum([i \in 1..Len(hs) |->
                      RSum([j \in 1..Len(ys(i)) |-> RSq(RSub(ys(i)[j], gmean(i)))])])]

AnovaApplicable(d) == d.k >= 2 /\ d.N - d.k > 0 /\ RGt(d.ss_within, Num(0))

RefF(d) == RDiv(RDiv(d.ss_between, Num(d.k - 1)), RDiv(d.ss_within, Num(d.N - d.k)))

\* two groups of equal size n and equal variance s2 > 0: <<n, s2, d>> with d the
\* difference of the means; <<>> for any other table
TwoEqualGroups(df) ==
    LET hs == SortedInts(Hours(df))
        a == Field(Group(df, hs[1]), "ARRIVAL_DELAY")
        b == Field(Group(df, hs[2]), "ARRIVAL_DELAY")
    IN  IF Len(hs) = 2 /\ Len(a) = Len(b) /\ Len(a) >= 2 /\ Var(a) = Var(b)
           /\ RGt(Var(a), Num(0))
        THEN <<Len(a), Var(a), RSub(Mean(a), Mean(b))>>
        ELSE <<>>

\* C7: anova_dep_hour returns F = (SS_between/(k-1)) / (SS_within/(N-k)) and
\* eta-squared = SS_between/(SS_between + SS_within); it returns all fields None
\* exactly when k < 2, N - k <= 0 or SS_within <= 0; for two groups of equal
\* size n and equal variance s2 with means differing by d, F = n*d^2/(2*s2).
C7_AnovaDecomposition ==
    pc # "anova_dep_hour" =>
        LET d == Decomposition(filtered)
            two == TwoEqualGroups(filtered)
        IN  /\ (anova_stats = AnovaNA) <=> ~AnovaApplicable(d)
            /\ AnovaApplicable(d) =>
                   /\ anova_stats.f_stat = RefF(d)
                   /\ anova_stats.effect_size =
                          RDiv(d.ss_between, RAdd(d.ss_between, d.ss_within))
            /\ two # <<>> =>
                   anova_stats.f_stat =
                       RDiv(RMul(Num(two[1]), RSq(two[3])), RMul(Num(2), two[2]))

\* two groups of two flights, equal variance, different means: F is computed
C7_Witness ==
    /\ pc # "anova_dep_hour"
    /\ TwoEqualGroups(filtered) # <<>>
    /\ TwoEqualGroups(filtered)[3] # Num(0)
    /\ anova_stats.f_stat # None /\ RGt(anova_stats.f_stat, Num(0))

\* C8: without a usable F-distribution anova_dep_hour still returns the
\* F-statistic and the effect size of the data and a None p-value; a p-value is
\* None or the F-distribution's value for (F, k-1, N-k), never another number.
C8_PValueOmitted ==
    pc # "anova_dep_hour" =>
        LET d == Decomposition(filtered)
        IN  /\ ~scipy => anova_stats.p_value = None
            /\ (~scipy /\ AnovaApplicable(d)) =>
                   /\ anova_stats.f_stat # None /\ anova_stats.f_stat = RefF(d)
                   /\ anova_stats.effect_size # None
                   /\ IsFinite(anova_stats.effect_size)
            /\ anova_stats.p_value # None =>
                   /\ scipy
                   /\ anova_stats.p_value = FDistSf(anova_stats.f_stat, d.k - 1, d.N - d.k)

\* an ANOVA computed without scipy: F and effect size, no p-value
C8_Witness ==
    /\ pc # "anova_dep_hour" /\ ~scipy
    /\ anova_stats.f_stat # None /\ RGt(anova_stats.f_stat, Num(0))
    /\ anova_stats.effect_size # None /\ anova_stats.p_value = None


\* ------------------------------------------------------------------------
\* SpecCorr: safe_corr(filtered, "DEPARTURE_DELAY", "ARRIVAL_DELAY") on tables
\* whose two delays vary and may be missing, as cells or as columns
\* ------------------------------------------------------------------------
CorrRowSet ==
    {[BaseRow EXCEPT !.DEPARTURE_DELAY = dd, !.ARRIVAL_DELAY = ad] :
        dd \in DelayValues \cup {NaN}, ad \in DelayValues \cup {NaN}}

\* df without the column col
DropColumn(df, col) ==
    Table(df.cols \ {col},
          [i \in 1..Len(df.rows) |-> Restrict(df.rows[i], df.cols \ {col})])

CorrTables(n) ==
    LET full == {Loaded(rows) : rows \in SeqsUpTo(CorrRowSet, n)}
    IN  full \cup {DropColumn(df, "DEPARTURE_DELAY") : df \in full}
             \cup {DropColumn(df, "ARRIVAL_DELAY") : df \in full}

InitCorr ==
    /\ InitPass(CorrTables(MaxRows), "safe_corr")
    /\ scipy = TRUE
   

SpecCorr == InitCorr /\ [][Corr]_vars

\* the rows of a table where both delays are present, as <<x, y>> pairs
BothPresent(df) ==
    SelectSeq([i \in 1..Len(df.rows) |->
                  <<df.rows[i].DEPARTURE_DELAY, df.rows[i].ARRIVAL_DELAY>>],
              LAMBDA q : IsFinite(q[1]) /\ IsFinite(q[2]))

\* Pearson's r of pairs, from the deviations, as <<sign, n, d>>
RefPearson(pairs) ==
    LET n == Num(Len(pairs))
        mx == RDiv(RSum([i \in 1..Len(pairs) |-> pairs[i][1]]), n)
        my == RDiv(RSum([i \in 1..Len(pairs) |-> pairs[i][2]]), n)
        sxy == RSum([i \in 1..Len(pairs) |->
                        RMul(RSub(pairs[i][1], mx), RSub(pairs[i][2], my))])
        sxx == RSum([i \in 1..Len(pairs) |-> RSq(RSub(pairs[i][1], mx))])
        syy == RSum([i \in 1..Len(pairs) |-> RSq(RSub(pairs[i][2], my))])
        r2 == RDiv(RSq(sxy), RMul(sxx, syy))
    IN  <<IF RLt(sxy, Num(0)) THEN -1 ELSE IF RGt(sxy, Num(0)) THEN 1 ELSE 0,
          r2[1], r2[2]>>

\* the coefficient is undefined: no table, a field absent, fewer than 2 rows
\* with both fields, or a field constant over them
CorrUndefined(df) ==
    \/ IsEmpty(df)
    \/ "DEPARTURE_DELAY" \notin df.cols \/ "ARRIVAL_DELAY" \notin df.cols
    \/ LET pairs == BothPresent(df)
       IN  \/ Len(pairs) < 2
           \/ \A i \in 1..Len(pairs) : pairs[i][1] = pairs[1][1]
           \/ \A i \in 1..Len(pairs) : pairs[i][2] = pairs[1][2]

\* C9: safe_corr returns None, and no NaN, when the table is empty, a field is
\* absent or the coefficient is undefined; otherwise it returns Pearson's r over
\* the rows where both fields are present, a number in [-1, 1].
C9_SafeCorr ==
    pc # "safe_corr" =>
        /\ corr_dep_arr # NaN
        /\ CorrUndefined(filtered) <=> corr_dep_arr = None
        /\ ~CorrUndefined(filtered) =>
               /\ corr_dep_arr = RefPearson(BothPresent(filtered))
               /\ corr_dep_arr[2] <= corr_dep_arr[3]

\* a coefficient strictly between 0 and 1 over a table that also has a row
\* with a missing delay
C9_Witness ==
    /\ pc # "safe_corr" /\ corr_dep_arr # None
    /\ Len(BothPresent(filtered)) < NRows(filtered)
    /\ corr_dep_arr[1] # 0

\* a constant field: no coefficient
C9_WitnessConstant ==
    /\ pc # "safe_corr" /\ corr_dep_arr = None
    /\ ~IsEmpty(filtered) /\ {"DEPARTURE_DELAY", "ARRIVAL_DELAY"} \subseteq filtered.cols
    /\ Len(BothPresent(filtered)) >= 2


\* ------------------------------------------------------------------------
\* SpecSummary: both pages' scripts up to their hourly summary, on files whose
\* departure hours, arrival delays and origins vary
\* ------------------------------------------------------------------------
\* longest flights.csv of SpecSummary
SummaryRows == 3

SummaryRowSet ==
    {[BaseRow EXCEPT !.SCHEDULED_DEPARTURE = sd, !.ARRIVAL_DELAY = ad,
                     !.ORIGIN_AIRPORT = o] :
        sd \in {Num(30), Num(130)}, ad \in {Num(0), Num(2)}, o \in {"ATL", "ORD"}}

InitSummary ==
    /\ Blank /\ NoSelection
    /\ file \in {Table(RawCols, rows) : rows \in SeqsUpTo(SummaryRowSet, SummaryRows)}
    /\ row_limit = SummaryRows
    /\ df_raw = EmptyFrame
    /\ trim_pct = 0
    /\ scipy = TRUE

NextSummary ==
    \/ Load \/ Sidebar \/ StopEmpty \/ Filter \/ Winsorize \/ HubFlag \/ Hourly
    \/ VisFilter \/ VisHourly

SpecSummary == InitSummary /\ [][NextSummary]_vars

\* the sum of the 'flights' column of an hourly summary
Flights(h) == ISum([i \in 1..Len(h.rows) |-> h.rows[i].flights])

\* C4: the per-departure-hour group counts returned by hourly_summary sum to
\* the row count of the subset it was given, on both pages.
C4_CountsSum ==
    /\ "hourly_summary" \in done => Flights(hourly) = NRows(filtered)
    /\ "hourly_summary_vis" \in done => Flights(vis_hourly) = NRows(vis_filtered)

\* a summary of two hours over a subset that the origin filter has shortened
\* and whose arrival delays winsorization has clipped
C4_Witness ==
    /\ "hourly_summary" \in done
    /\ trim_pct > 0 /\ origins # {}
    /\ NRows(filtered) = 2 /\ NRows(df_raw) = 3
    /\ \A i \in 1..2 :
          filtered.rows[i].ARRIVAL_DELAY # filtered_pre.rows[i].ARRIVAL_DELAY
    /\ NRows(hourly) = 2 /\ Flights(hourly) = 2

\* the visualisations page's summary of a shortened subset with two flights in
\* one hour
C4_WitnessVis ==
    /\ "hourly_summary_vis" \in done
    /\ origins # {} /\ NRows(vis_filtered) = 2 /\ NRows(df_raw) = 3
    /\ NRows(vis_hourly) = 1 /\ Flights(vis_hourly) = 2

\* C10 (as claimed): in the pass a failure of one statistic never prevents the
\* others from completing: when the script has ended, every statistic that did
\* not itself fail has produced its result.
C10_Isolation ==
    pc = "crashed" =>
        Cardinality({"linear_trend_dep_hour", "controlled_trend",
                     "anova_dep_hour", "safe_corr"} \ done) <= 1

\* C11 (as claimed): the Hypothesis-1 rendering completes for every combination
\* of results, a null field never brings it to an error state, and it shows
\* each null field as not applicable and each number as a number.
C11_RenderNulls ==
    /\ error # "TypeError"
    /\ "tab_h1" \in done =>
          /\ (shown.trend = NotApplicable) <=> (trend_stats.slope = None)
          /\ (shown.r2 = NotApplicable) <=> (trend_stats.r2 = None)
          /\ (shown.anova.f = NotApplicable) <=> (anova_stats.f_stat = None)

\* ------------------------------------------------------------------------
\* SpecWinsor: apply_filters and winsorize_delays on loaded tables whose
\* arrival delays, departure delays and origins vary, then winsorize_delays
\* once more on its own result
\* ------------------------------------------------------------------------
\* longest table of SpecWinsor
WinsorRows == 3

WinsorRowSet ==
    {[BaseRow EXCEPT !.ARRIVAL_DELAY = ad, !.DEPARTURE_DELAY = dd,
                     !.ORIGIN_AIRPORT = o] :
        ad \in {Num(0), Num(2)}, dd \in {Num(0), Num(3), NaN},
        o \in {"ATL", "ORD"}}

InitWinsor ==
    /\ pc = "sidebar"
    /\ filtered_pre = EmptyFrame /\ filtered = EmptyFrame /\ hourly = EmptyFrame
    /\ vis_filtered = EmptyFrame /\ vis_hourly = EmptyFrame
    /\ trend_stats = TrendNA /\ ctrl_stats = TrendNA /\ anova_stats = AnovaNA
    /\ corr_dep_arr = None
    /\ done = {} /\ error = "" /\ shown = <<>> /\ heap = <<>> /\ last = NoCall /\ Offline /\ NoCharts
    /\ file = EmptyFrame /\ row_limit = 0
    /\ df_raw \in {Loaded(rows) : rows \in SeqsUpTo(WinsorRowSet, WinsorRows) \ {<<>>}}
    /\ months = {} /\ airlines = {} /\ destinations = {}
    /\ origins \in {{}, {"ATL"}}
    /\ trim_pct \in {0, 1, TrimPct}
    /\ scipy = TRUE

\* winsorize_delays(winsorize_delays(S, p), p): the second call
WinsorizeAgain ==
    /\ pc = "hub_flag"
    /\ filtered_pre' = filtered
    /\ filtered' = winsorize_delays(filtered, trim_pct)
    /\ pc' = "winsorized_twice"
    /\ UNCHANGED <<Inputs, Results, done, error, shown, heap, last,
                   disk, cache, threads, vis_airports>>

NextWinsor == Filter \/ Winsorize \/ WinsorizeAgain

SpecWinsor == InitWinsor /\ [][NextWinsor]_vars

\* the k-th smallest (k = 0, 1, ...) of the values s
RefKth(s, k) ==
    CHOOSE v \in Range(s) :
        /\ Cardinality({i \in DOMAIN s : RLt(s[i], v)}) <= k
        /\ k < Cardinality({i \in DOMAIN s : RLe(s[i], v)})

\* the p-th percentile (p in 0..100) of the present values of a column,
\* interpolated linearly between the order statistics
RefPercentile(column, p) ==
    LET s == SelectSeq(column, LAMBDA v : v[2] # 0)
        h == (Len(s) - 1) * p
        lo == h \div 100
        rem == h % 100
    IN  IF Len(s) = 0 THEN NaN
        ELSE IF rem = 0 THEN RefKth(s, lo)
        ELSE RAdd(RefKth(s, lo),
                  RMul(Rat(rem, 100), RSub(RefKth(s, lo + 1), RefKth(s, lo))))

RefMin(a, b) == IF RLe(a, b) THEN a ELSE b
RefMax(a, b) == IF RGe(a, b) THEN a ELSE b

\* min(max(v, lower), upper) with the bounds of v's own column in table df
RefClipped(df, col, v, p) ==
    IF v[2] = 0 THEN v
    ELSE RefMin(RefMax(v, RefPercentile(Column(df, col), p)),
                RefPercentile(Column(df, col), 100 - p))

Delays == {"ARRIVAL_DELAY", "DEPARTURE_DELAY"}

\* C12: with p > 0 winsorize_delays replaces every ARRIVAL_DELAY and every
\* DEPARTURE_DELAY value v by min(max(v, lower), upper), lower and upper being
\* the p-th and (100-p)-th percentiles of that column of the subset passed in,
\* and leaves everything else as it was; with p = 0 the result is the input.
C12_Winsorized ==
    pc = "hub_flag" =>
        IF trim_pct = 0 THEN filtered = filtered_pre
        ELSE /\ filtered.cols = filtered_pre.cols
             /\ NRows(filtered) = NRows(filtered_pre)
             /\ \A i \in 1..NRows(filtered) :
                  /\ \A col \in Delays :
                       filtered.rows[i][col] =
                           RefClipped(filtered_pre, col,
                                      filtered_pre.rows[i][col], trim_pct)
                  /\ \A col \in filtered.cols \ Delays :
                       filtered.rows[i][col] = filtered_pre.rows[i][col]

\* a filtered subset shorter than the loaded table, whose two delay columns
\* are clipped to different bounds, which are not those of the loaded table
C12_Witness ==
    /\ pc = "hub_flag" /\ trim_pct > 0
    /\ NRows(filtered) = 2 /\ NRows(df_raw) = 3
    /\ \E i \in 1..2 :
         /\ RLt(filtered.rows[i].ARRIVAL_DELAY, filtered_pre.rows[i].ARRIVAL_DELAY)
         /\ RLt(filtered.rows[i].DEPARTURE_DELAY, filtered_pre.rows[i].DEPARTURE_DELAY)
         /\ filtered.rows[i].ARRIVAL_DELAY # filtered.rows[i].DEPARTURE_DELAY
         /\ filtered.rows[i].ARRIVAL_DELAY #
                RefClipped(df_raw, "ARRIVAL_DELAY",
                           filtered_pre.rows[i].ARRIVAL_DELAY, trim_pct)

\* p = 0 leaves a non-empty subset as it is
C12_WitnessNoOp ==
    /\ pc = "hub_flag" /\ trim_pct = 0 /\ NRows(filtered) = 3
    /\ filtered = filtered_pre

\* C13 (as claimed): winsorization is idempotent, the second of two calls with
\* the same p returns its input.
C13_Idempotent ==
    pc = "winsorized_twice" => filtered = filtered_pre

\* ------------------------------------------------------------------------
\* SpecHub: apply_filters, winsorize_delays and hub_flag on loaded tables
\* whose origins and airlines vary; the airline selection shrinks the subset
\* ------------------------------------------------------------------------
\* longest table of SpecHub
HubRows == 4

HubOrigins == <<"ATL", "ORD", "LAX">>

HubRowSet ==
    {[BaseRow EXCEPT !.ORIGIN_AIRPORT = o, !.AIRLINE = a] :
        o \in Range(HubOrigins), a \in {"AA", "DL"}}

InitHub ==
    /\ pc = "sidebar"
    /\ filtered_pre = EmptyFrame /\ filtered = EmptyFrame /\ hourly = EmptyFrame
    /\ vis_filtered = EmptyFrame /\ vis_hourly = EmptyFrame
    /\ trend_stats = TrendNA /\ ctrl_stats = TrendNA /\ anova_stats = AnovaNA
    /\ corr_dep_arr = None
    /\ done = {} /\ error = "" /\ shown = <<>> /\ heap = <<>> /\ last = NoCall /\ Offline /\ NoCharts
    /\ file = EmptyFrame /\ row_limit = 0
    /\ df_raw \in {Loaded(rows) : rows \in SeqsUpTo(HubRowSet, HubRows) \ {<<>>}}
    /\ months = {} /\ origins = {} /\ destinations = {}
    /\ airlines \in {{}, {"AA"}}
    /\ trim_pct = 0
    /\ scipy = TRUE

NextHub == Filter \/ Winsorize \/ HubFlag

SpecHub == InitHub /\ [][NextHub]_vars

\* the number of flights of table df that leave from origin o
RefCount(df, o) == Cardinality({i \in 1..NRows(df) : df.rows[i].ORIGIN_AIRPORT = o})

\* the flight counts of the origins present in df
RefCounts(df) ==
    SelectSeq([k \in 1..Len(HubOrigins) |-> Num(RefCount(df, HubOrigins[k]))],
              LAMBDA c : c[1] > 0)

\* whether origin o reaches the 0.8-quantile of the origins' counts in df
RefHub(df, o) == RGe(Num(RefCount(df, o)), RefPercentile(RefCounts(df), 80))

\* C14: on a non-empty working subset hub_flag marks a row is_hub = true
\* exactly when its origin's flight count in that subset is >= the 0.8-quantile
\* of the flight counts of the subset's origins.
C14_HubFlag ==
    (pc = "hourly_summary" /\ ~IsEmpty(filtered)) =>
        /\ "is_hub" \in filtered.cols
        /\ \A i \in 1..NRows(filtered) :
             filtered.rows[i].is_hub
                 <=> RefHub(filtered, filtered.rows[i].ORIGIN_AIRPORT)

\* a shrunk subset with a hub row and a row that is no hub
C14_Witness ==
    /\ pc = "hourly_summary" /\ airlines # {}
    /\ NRows(filtered) < NRows(df_raw)
    /\ \E i, j \in 1..NRows(filtered) :
         filtered.rows[i].is_hub /\ ~filtered.rows[j].is_hub

\* shrinking the subset makes an origin a hub that is none in the loaded table
C14_WitnessShrink ==
    /\ pc = "hourly_summary"
    /\ NRows(filtered) < NRows(df_raw)
    /\ \E i \in 1..NRows(filtered) :
         /\ filtered.rows[i].is_hub
         /\ ~RefHub(df_raw, filtered.rows[i].ORIGIN_AIRPORT)

\* the dep_hour column of an hourly summary
SummaryHours(h) == [i \in 1..NRows(h) |-> h.rows[i].dep_hour]

\* whether summary h holds one row per departure hour of table df, ascending
OneRowPerHour(h, df) ==
    /\ \A i, j \in 1..NRows(h) : i < j => SummaryHours(h)[i] < SummaryHours(h)[j]
    /\ Range(SummaryHours(h)) = {df.rows[i].dep_hour : i \in 1..NRows(df)}

\* C15: for a non-empty subset hourly_summary returns exactly one row per
\* distinct departure hour present in the subset, in strictly ascending order
\* of departure hour, and no row for an hour without a flight; on both pages.
C15_OneRowPerHour ==
    /\ ("hourly_summary" \in done /\ ~IsEmpty(filtered))
           => OneRowPerHour(hourly, filtered)
    /\ ("hourly_summary_vis" \in done /\ ~IsEmpty(vis_filtered))
           => OneRowPerHour(vis_hourly, vis_filtered)

\* a subset whose rows come latest hour first, one hour twice
C15_Witness ==
    /\ "hourly_summary" \in done /\ NRows(filtered) = 3
    /\ filtered.rows[1].dep_hour = 1 /\ filtered.rows[2].dep_hour = 0
    /\ filtered.rows[3].dep_hour = 1
    /\ SummaryHours(hourly) = <<0, 1>>

\* the same on the visualisations page
C15_WitnessVis ==
    /\ "hourly_summary_vis" \in done /\ NRows(vis_filtered) = 3
    /\ vis_filtered.rows[1].dep_hour = 1 /\ vis_filtered.rows[2].dep_hour = 0
    /\ SummaryHours(vis_hourly) = <<0, 1>>

\* an hour of the loaded table that the filtered subset has lost gets no row
C15_WitnessAbsent ==
    /\ "hourly_summary" \in done /\ origins # {}
    /\ \E i \in 1..NRows(df_raw) : df_raw.rows[i].dep_hour = 1
    /\ SummaryHours(hourly) = <<0>>

\* ------------------------------------------------------------------------
\* SpecEmpty: both pages from the sidebar to the hourly summary, on loaded
\* tables and selections of an origin and an airline that may leave no row
\* ------------------------------------------------------------------------
\* longest table of SpecEmpty
EmptyRows == 2

EmptyRowSet ==
    {[BaseRow EXCEPT !.SCHEDULED_DEPARTURE = sd, !.ORIGIN_AIRPORT = o,
                     !.AIRLINE = a] :
        sd \in {Num(30), Num(130)}, o \in {"ATL", "ORD"}, a \in {"AA", "DL"}}

InitEmpty ==
    /\ pc = "sidebar"
    /\ filtered_pre = EmptyFrame /\ filtered = EmptyFrame /\ hourly = EmptyFrame
    /\ vis_filtered = EmptyFrame /\ vis_hourly = EmptyFrame
    /\ trend_stats = TrendNA /\ ctrl_stats = TrendNA /\ anova_stats = AnovaNA
    /\ corr_dep_arr = None
    /\ done = {} /\ error = "" /\ shown = <<>> /\ heap = <<>> /\ last = NoCall /\ Offline /\ NoCharts
    /\ file = EmptyFrame /\ row_limit = 0
    /\ df_raw \in {Loaded(rows) : rows \in SeqsUpTo(EmptyRowSet, EmptyRows) \ {<<>>}}
    /\ months = {} /\ destinations = {}
    /\ origins \in {{}} \cup {{o} : o \in CodeOptions(df_raw, "ORIGIN_AIRPORT")}
    /\ airlines \in {{}} \cup {{a} : a \in CodeOptions(df_raw, "AIRLINE")}
    /\ trim_pct \in {0, TrimPct}
    /\ scipy = TRUE

NextEmpty == Filter \/ Winsorize \/ HubFlag \/ Hourly \/ VisFilter \/ VisHourly

SpecEmpty == InitEmpty /\ [][NextEmpty]_vars

\* C16 (as claimed): on an empty subset hourly_summary returns a result of zero
\* rows with the same column names as its result for a non-empty subset (here
\* the loaded table); on both pages.
C16_EmptySchema ==
    /\ ("hourly_summary" \in done /\ IsEmpty(filtered)) =>
           /\ NRows(hourly) = 0
           /\ hourly.cols = hourly_summary(df_raw).cols
    /\ ("hourly_summary_vis" \in done /\ IsEmpty(vis_filtered)) =>
           /\ NRows(vis_hourly) = 0
           /\ vis_hourly.cols = hourly_summary_vis(df_raw).cols

\* ------------------------------------------------------------------------
\* SpecCtrl: controlled_trend on tables whose departure hours, arrival delays
\* and weekdays vary; a weekday may be null, and MONTH or DAY_OF_WEEK may be
\* absent from the table
\* ------------------------------------------------------------------------
\* longest table of SpecCtrl
CtrlRows == 3

CtrlRowSet ==
    {[BaseRow EXCEPT !.SCHEDULED_DEPARTURE = sd, !.ARRIVAL_DELAY = ad,
                     !.DAY_OF_WEEK = dw] :
        sd \in {Num(30), Num(130)}, ad \in {Num(0), Num(1)},
        dw \in {Num(1), Num(2), NaN}}

CtrlTables(n) ==
    LET full == {Loaded(rows) : rows \in SeqsUpTo(CtrlRowSet, n)}
    IN  full \cup {DropColumn(t, "MONTH") : t \in full}
             \cup {DropColumn(t, "DAY_OF_WEEK") : t \in full}

InitCtrl ==
    /\ InitPass(CtrlTables(CtrlRows), "controlled_trend")
    /\ scipy = TRUE

SpecCtrl == InitCtrl /\ [][Ctrl]_vars

\* the rows of df in the (MONTH, DAY_OF_WEEK) group of row i; none when a key
\* of row i is null
RefGroup(df, i) ==
    {j \in 1..NRows(df) :
        /\ df.rows[i].MONTH[2] # 0 /\ df.rows[i].DAY_OF_WEEK[2] # 0
        /\ df.rows[j].MONTH = df.rows[i].MONTH
        /\ df.rows[j].DAY_OF_WEEK = df.rows[i].DAY_OF_WEEK}

\* the sum of the arrival delays of the rows J of df
RECURSIVE RefDelaySum(_, _)
RefDelaySum(df, J) ==
    IF J = {} THEN Num(0)
    ELSE LET j == CHOOSE k \in J : TRUE
         IN  RAdd(df.rows[j].ARRIVAL_DELAY, RefDelaySum(df, J \ {j}))

\* arrival delay minus the mean arrival delay of the row's group
RefResidual(df, i) ==
    IF RefGroup(df, i) = {} THEN NaN
    ELSE RSub(df.rows[i].ARRIVAL_DELAY,
              RDiv(RefDelaySum(df, RefGroup(df, i)),
                   Num(Cardinality(RefGroup(df, i)))))

\* what the claim says controlled_trend returns on table df
RefControlled(df) ==
    IF IsEmpty(df) \/ ~({"MONTH", "DAY_OF_WEEK"} \subseteq df.cols) THEN TrendNA
    ELSE LET resid == [i \in 1..NRows(df) |-> RefResidual(df, i)]
             pairs == {i \in 1..NRows(df) : resid[i][2] # 0}
             hours == {df.rows[i].dep_hour : i \in pairs}
         IN  IF Cardinality(pairs) < 2 \/ Cardinality(hours) < 2 THEN TrendNA
             ELSE LET ref == RefLine(Masked(HourColumn(df), pairs),
                                     Masked(resid, pairs))
                  IN  [slope |-> ref.slope,
                       r2 |-> IF ref.ss_tot = Num(0) THEN None
                              ELSE RSub(Num(1), RDiv(ref.ss_res, ref.ss_tot))]

\* C17 (as claimed): controlled_trend never raises; it returns slope = r2 =
\* None when the table is empty, when MONTH or DAY_OF_WEEK is absent, or when
\* the finite (departure hour, residual) pairs are fewer than 2 or hold fewer
\* than 2 distinct hours, and the OLS slope and R2 of the residual against
\* departure hour over the finite pairs otherwise.
C17_ControlledTrend ==
    pc # "controlled_trend" =>
        /\ error = ""
        /\ ctrl_stats = RefControlled(filtered)

\* ------------------------------------------------------------------------
\* SpecScenario: linear_trend_dep_hour on ten flights with departure hours
\* 0, 0, 6, 6, 12, 12, 18, 18, 23, 23 whose arrival delay grows by a step
\* from one hour to the next; the two flights of hour 23 are each delayed by a
\* surge on top
\* ------------------------------------------------------------------------
ScenarioHours == <<0, 0, 6, 6, 12, 12, 18, 18, 23, 23>>

\* largest step of delay between consecutive hours
MaxStep == 2
\* largest surge of an hour-23 flight
MaxSurge == 12

ScenarioDelay(step, e1, e2, i) ==
    step * ((i - 1) \div 2)
        + (IF i = Len(ScenarioHours) - 1 THEN e1
           ELSE IF i = Len(ScenarioHours) THEN e2 ELSE 0)

ScenarioRows(step, e1, e2) ==
    [i \in 1..Len(ScenarioHours) |->
        [BaseRow EXCEPT !.SCHEDULED_DEPARTURE = Num(100 * ScenarioHours[i] + 30),
                        !.ARRIVAL_DELAY = Num(ScenarioDelay(step, e1, e2, i))]]

InitScenario ==
    /\ InitPass({Loaded(ScenarioRows(step, e1, e2)) :
                    step \in 1..MaxStep, e1 \in 0..MaxSurge, e2 \in 0..MaxSurge},
                "linear_trend_dep_hour")
    /\ scipy = TRUE

SpecScenario == InitScenario /\ [][Trend]_vars

\* the table holds the scenario's hours, and a flight of a later hour has a
\* larger arrival delay
IncreasingWithHour ==
    /\ [i \in 1..NRows(filtered) |-> filtered.rows[i].dep_hour] = ScenarioHours
    /\ \A i, j \in 1..NRows(filtered) :
         filtered.rows[i].dep_hour < filtered.rows[j].dep_hour
             => RLt(filtered.rows[i].ARRIVAL_DELAY, filtered.rows[j].ARRIVAL_DELAY)

\* both flights of an hour have the same delay, and it grows by the same step
\* from each hour to the next
EvenSteps ==
    \E step \in 1..MaxStep :
        \A i \in 1..NRows(filtered) :
            filtered.rows[i].ARRIVAL_DELAY = Num(step * ((i - 1) \div 2))

\* C18 (as claimed): on the ten flights with delays increasing with hour
\* linear_trend_dep_hour returns a positive slope and R2 > 0.5.
C18_Scenario ==
    ("linear_trend_dep_hour" \in done /\ IncreasingWithHour) =>
        /\ RGt(trend_stats.slope, Num(0))
        /\ trend_stats.r2 # None
        /\ RGt(trend_stats.r2, Rat(1, 2))

\* C18 (amended): on the ten flights with delays increasing with hour
\* linear_trend_dep_hour returns a positive slope and an R2 in (0, 1]; the R2
\* is above 0.5 when the delay grows in even steps.
C18_ScenarioAmended ==
    ("linear_trend_dep_hour" \in done /\ IncreasingWithHour) =>
        /\ RGt(trend_stats.slope, Num(0))
        /\ trend_stats.r2 # None
        /\ RGt(trend_stats.r2, Num(0)) /\ RLe(trend_stats.r2, Num(1))
        /\ EvenSteps => RGt(trend_stats.r2, Rat(1, 2))

\* the trend of delays in even steps
C18_Witness ==
    /\ "linear_trend_dep_hour" \in done /\ IncreasingWithHour /\ EvenSteps
    /\ RGt(trend_stats.slope, Num(0)) /\ RGt(trend_stats.r2, Rat(1, 2))

\* the trend of delays 0, 0, 1, 1, 2, 2, 3, 3, 4, 15: R2 below 0.5
C18_WitnessSurge ==
    /\ "linear_trend_dep_hour" \in done /\ IncreasingWithHour
    /\ filtered.rows[9].ARRIVAL_DELAY = Num(4)
    /\ filtered.rows[10].ARRIVAL_DELAY = Num(15)
    /\ trend_stats.slope = Rat(299, 842)
    /\ RLt(trend_stats.r2, Rat(1, 2))

\* the departure-hour groups of df all have the same mean arrival delay:
\* sum(g) / |g| = sum(h) / |h| for all groups g, h, cross-multiplied
IdenticalMeans(df) ==
    \A g, h \in Hours(df) :
        RMul(RSum(Field(Group(df, g), "ARRIVAL_DELAY")), Num(Len(Group(df, h))))
            = RMul(RSum(Field(Group(df, h), "ARRIVAL_DELAY")), Num(Len(Group(df, g))))

\* C19: for a subset with at least 2 departure-hour groups whose means are all
\* identical and whose within-group sum of squares is positive, anova_dep_hour
\* returns F = 0 and effect size = 0, not the not-applicable result.
C19_IdenticalMeans ==
    (pc # "anova_dep_hour" /\ ~IsEmpty(filtered)) =>
        LET d == Decomposition(filtered)
        IN  (d.k >= 2 /\ IdenticalMeans(filtered) /\ RGt(d.ss_within, Num(0))) =>
                /\ anova_stats # AnovaNA
                /\ anova_stats.f_stat = Num(0)
                /\ anova_stats.effect_size = Num(0)

\* two hours with delays (0, 2) and (1, 1): equal means, F = 0
C19_Witness ==
    /\ pc # "anova_dep_hour" /\ NRows(filtered) = 4
    /\ Cardinality(Hours(filtered)) = 2 /\ IdenticalMeans(filtered)
    /\ RGt(Decomposition(filtered).ss_within, Num(0))
    /\ anova_stats.f_stat = Num(0) /\ anova_stats.effect_size = Num(0)

\* the same with an hour of a single flight
C19_WitnessSingle ==
    /\ pc # "anova_dep_hour" /\ NRows(filtered) = 3
    /\ Cardinality(Hours(filtered)) = 2 /\ IdenticalMeans(filtered)
    /\ RGt(Decomposition(filtered).ss_within, Num(0))
    /\ anova_stats.f_stat = Num(0)

\* ------------------------------------------------------------------------
\* SpecFrame: the functions of pages/03_Statistische_Analyse.py called in any
\* order on DataFrame objects.  heap[r] is the content of the object r; a
\* function gets a reference, may create objects and may write to objects,
\* and returns a reference when its result is a table.
\* ------------------------------------------------------------------------
\* most objects of SpecFrame
MaxObjects == 3
\* longest loaded table of SpecFrame
FrameRows == 2

\* a new DataFrame object
Alloc(h, df) == [heap |-> Append(h, df), ref |-> Len(h) + 1]

\* a copy that is the object itself
CopyAlias(h, r) == [heap |-> h, ref |-> r]

\* df.copy()
Copy(h, r) == Alloc(h, h[r])

\* df[col] = ...: the object r is written in place
Store(h, r, df) == [h EXCEPT ![r] = df]

\* out = out[mask] when the selection is not empty, else out stays what it is
Index(h, r, selected, Keep(_)) ==
    IF selected THEN Alloc(h, Where(h[r], Keep)) ELSE [heap |-> h, ref |-> r]

\* lines 22-35
ApplyFiltersObject(h, r, ms, als, os, ds) ==
    IF IsEmpty(h[r]) THEN Alloc(h, EmptyFrame)
    ELSE LET o1 == Index(h, r, ms # {}, LAMBDA row : IsIn(row.MONTH, ms))
             o2 == Index(o1.heap, o1.ref, als # {}, LAMBDA row : row.AIRLINE \in als)
             o3 == Index(o2.heap, o2.ref, os # {}, LAMBDA row : row.ORIGIN_AIRPORT \in os)
         IN  Index(o3.heap, o3.ref, ds # {}, LAMBDA row : row.DESTINATION_AIRPORT \in ds)

\* lines 38-47
WinsorizeObject(h, r, pct) ==
    IF IsEmpty(h[r]) \/ pct <= 0 THEN [heap |-> h, ref |-> r]
    ELSE LET c == Copy(h, r)
             a == Store(c.heap, c.ref, ClipColumn(c.heap[c.ref], "ARRIVAL_DELAY", pct))
             d == Store(a, c.ref, ClipColumn(a[c.ref], "DEPARTURE_DELAY", pct))
         IN  [heap |-> d, ref |-> c.ref]

\* lines 147-158
HubFlagObject(h, r, quantile) ==
    IF IsEmpty(h[r]) \/ "ORIGIN_AIRPORT" \notin h[r].cols THEN [heap |-> h, ref |-> r]
    ELSE IF Origins(h[r]) = {} THEN [heap |-> h, ref |-> r]
    ELSE LET c == Copy(h, r)
         IN  [heap |-> Store(c.heap, c.ref, hub_flag(c.heap[c.ref], quantile)),
              ref |-> c.ref]

\* lines 50-66: the summary is a new table
HourlySummaryObject(h, r) == Alloc(h, hourly_summary(h[r]))

FrameRowSet ==
    {[BaseRow EXCEPT !.ARRIVAL_DELAY = Num(0), !.ORIGIN_AIRPORT = "ATL"],
     [BaseRow EXCEPT !.ARRIVAL_DELAY = Num(2), !.ORIGIN_AIRPORT = "ORD"]}

InitFrame ==
    /\ pc = "calls"
    /\ file = EmptyFrame /\ row_limit = 0
    /\ df_raw \in {Loaded(rows) : rows \in SeqsUpTo(FrameRowSet, FrameRows) \ {<<>>}}
    /\ heap = <<df_raw>> /\ last = NoCall /\ Offline /\ NoCharts
    /\ months = {} /\ airlines = {} /\ destinations = {}
    /\ origins \in {{}, {"ATL"}}
    /\ trim_pct \in {0, TrimPct}
    /\ scipy = TRUE
    /\ filtered_pre = EmptyFrame /\ filtered = EmptyFrame /\ hourly = EmptyFrame
    /\ vis_filtered = EmptyFrame /\ vis_hourly = EmptyFrame
    /\ trend_stats = TrendNA /\ ctrl_stats = TrendNA /\ anova_stats = AnovaNA
    /\ corr_dep_arr = None
    /\ done = {} /\ error = "" /\ shown = <<>>

\* the objects a function of the page can be given: tables of flights, and
\* the table without columns that apply_filters returns
Arguments == {r \in 1..Len(heap) : heap[r].cols = {} \/ "ARRIVAL_DELAY" \in heap[r].cols}

\* a call that returns a table
Returned(fn, r, call) ==
    /\ Len(call.heap) <= MaxObjects
    /\ heap' = call.heap
    /\ last' = [fn |-> fn, arg |-> r, ret |-> call.ref, pre |-> heap]

\* a call that returns a record or a number
Computed(fn, r) ==
    /\ heap' = heap
    /\ last' = [fn |-> fn, arg |-> r, ret |-> 0, pre |-> heap]

FrameUnchanged == <<pc, Inputs, filtered_pre, filtered, done, error, shown,
                    disk, cache, threads, vis_airports>>

ObjApplyFilters ==
    /\ \E r \in Arguments :
          Returned("apply_filters", r,
                   ApplyFiltersObject(heap, r, months, airlines, origins, destinations))
    /\ UNCHANGED <<FrameUnchanged, Results>>

ObjWinsorize ==
    /\ \E r \in Arguments :
          Returned("winsorize_delays", r, WinsorizeObject(heap, r, trim_pct))
    /\ UNCHANGED <<FrameUnchanged, Results>>

ObjHubFlag ==
    /\ \E r \in Arguments :
          Returned("hub_flag", r, HubFlagObject(heap, r, Rat(8, 10)))
    /\ UNCHANGED <<FrameUnchanged, Results>>

ObjHourly ==
    /\ \E r \in Arguments :
          Returned("hourly_summary", r, HourlySummaryObject(heap, r))
    /\ UNCHANGED <<FrameUnchanged, Results>>

\* the statistics read their argument and return a record or a number
ObjTrend ==
    /\ \E r \in Arguments : Computed("linear_trend_dep_hour", r)
    /\ UNCHANGED <<FrameUnchanged, Results>>

ObjCtrl ==
    /\ \E r \in Arguments : Computed("controlled_trend", r)
    /\ UNCHANGED <<FrameUnchanged, Results>>

ObjAnova ==
    /\ \E r \in Arguments : Computed("anova_dep_hour", r)
    /\ UNCHANGED <<FrameUnchanged, Results>>

ObjCorr ==
    /\ \E r \in Arguments : Computed("safe_corr", r)
    /\ UNCHANGED <<FrameUnchanged, Results>>

NextFrame ==
    \/ ObjApplyFilters \/ ObjWinsorize \/ ObjHubFlag \/ ObjHourly
    \/ ObjTrend \/ ObjCtrl \/ ObjAnova \/ ObjCorr

SpecFrame == InitFrame /\ [][NextFrame]_vars

\* no call has changed an object that existed before it, and the loaded
\* table, the first object, is what was loaded
InputsUnchanged ==
    /\ heap[1] = df_raw
    /\ last.fn # "" => \A r \in 1..Len(last.pre) : heap[r] = last.pre[r]

\* the last call was a winsorization or a hub flagging
Derives == last.fn \in {"winsorize_delays", "hub_flag"}

\* the result of the last call has as many rows as its argument
SameRows == NRows(heap[last.ret]) = NRows(last.pre[last.arg])

\* C20: no function changes the table it is given, so that after any
\* sequence of calls the loaded table is unchanged, and winsorize_delays and
\* hub_flag return a new table with as many rows as their argument.
C20_NewTable ==
    /\ InputsUnchanged
    /\ Derives => last.ret > Len(last.pre) /\ SameRows

\* the last call had nothing to write: an empty table, or pct = 0
NothingToDo ==
    \/ IsEmpty(last.pre[last.arg])
    \/ last.fn = "winsorize_delays" /\ trim_pct <= 0

\* C20 as amended: no function changes the table it is given, so that after
\* any sequence of calls the loaded table is unchanged; winsorize_delays and
\* hub_flag return a table with as many rows as their argument, which is a new
\* table when they have something to write and their argument itself when
\* the table is empty or pct is 0.
C20_Frame ==
    /\ InputsUnchanged
    /\ Derives => /\ SameRows
                  /\ IF NothingToDo THEN last.ret = last.arg
                                    ELSE last.ret > Len(last.pre)

\* a winsorization that clipped a delay, on a copy
C20_Witness ==
    /\ last.fn = "winsorize_delays" /\ last.ret > Len(last.pre)
    /\ heap[last.ret] # heap[last.arg]
    /\ Len(heap) = MaxObjects

\* a winsorization with pct = 0 returns its argument
C20_WitnessSame ==
    /\ last.fn = "winsorize_delays" /\ last.ret = last.arg /\ ~IsEmpty(heap[last.ret])

\* ------------------------------------------------------------------------
\* SpecDerive: load_flights on files whose departure times and delays lie on
\* both sides of the limits of the derived fields
\* ------------------------------------------------------------------------
\* longest file of SpecDerive
DeriveRows == 2

DepartureValues == {Num(-50), Num(0), Num(59), Num(1230), Rat(2461, 2),
                    Num(2359), Num(2400), Num(2500)}
ArrivalValues == {Num(15), Num(16), Rat(31, 2), Num(-5)}
CauseValues == {NaN, Text, Num(0), Num(5), Num(-1)}

\* a flight that differs from BaseRow in one field
DeriveRowSet ==
    {[BaseRow EXCEPT !.SCHEDULED_DEPARTURE = sd] : sd \in DepartureValues}
    \cup {[BaseRow EXCEPT !.ARRIVAL_DELAY = ad] : ad \in ArrivalValues}
    \cup {[BaseRow EXCEPT !.WEATHER_DELAY = v] : v \in CauseValues}
    \cup {[BaseRow EXCEPT !.LATE_AIRCRAFT_DELAY = v] : v \in CauseValues}

DeriveColSets == {RawCols, RawCols \ {"WEATHER_DELAY"}}

DeriveFiles(n) ==
    {Table(cols, [i \in 1..Len(rows) |-> Restrict(rows[i], cols)]) :
        cols \in DeriveColSets, rows \in SeqsUpTo(DeriveRowSet, n)}

InitDerive ==
    /\ Blank /\ NoSelection
    /\ file \in DeriveFiles(DeriveRows)
    /\ row_limit \in 1..DeriveRows
    /\ df_raw = EmptyFrame
    /\ trim_pct = 0 /\ scipy = TRUE

SpecDerive == InitDerive /\ [][Load]_vars

\* floor(v / 100): the integer q with 100 q <= v < 100 (q + 1)
RefFloorHundred(v) ==
    CHOOSE q \in -100..100 : RLe(Num(100 * q), v) /\ RLt(v, Num(100 * (q + 1)))

RefHour(v) ==
    LET q == RefFloorHundred(v)
    IN  IF q < 0 THEN 0 ELSE IF q > 23 THEN 23 ELSE q

\* non-null and > 0
RefCause(v) == IsFinite(v) /\ v[1] > 0

\* C21: for every loaded record, dep_hour is the integer floor(
\* SCHEDULED_DEPARTURE / 100) clamped into 0..23, is_late_15 is true iff
\* ARRIVAL_DELAY > 15, and has_weather_delay and has_late_aircraft_delay are
\* true iff the respective delay is non-null and > 0.
C21_DerivedFields ==
    pc = "loaded" =>
        \A i \in 1..NRows(df_raw) :
            LET r == df_raw.rows[i]
            IN  /\ "dep_hour" \in df_raw.cols
                /\ r.dep_hour \in 0..23
                /\ r.dep_hour = RefHour(r.SCHEDULED_DEPARTURE)
                /\ "is_late_15" \in df_raw.cols
                /\ r.is_late_15 <=> r.ARRIVAL_DELAY[1] > 15 * r.ARRIVAL_DELAY[2]
                /\ "has_late_aircraft_delay" \in df_raw.cols
                /\ r.has_late_aircraft_delay <=> RefCause(r.LATE_AIRCRAFT_DELAY)
                /\ "WEATHER_DELAY" \in df_raw.cols =>
                       /\ "has_weather_delay" \in df_raw.cols
                       /\ r.has_weather_delay <=> RefCause(r.WEATHER_DELAY)

\* a departure at 2400 or later in hour 23 and one before 0000 in hour 0
C21_Witness ==
    /\ pc = "loaded" /\ NRows(df_raw) = 2
    /\ \E i, j \in 1..2 :
          /\ RGe(df_raw.rows[i].SCHEDULED_DEPARTURE, Num(2400))
          /\ df_raw.rows[i].dep_hour = 23
          /\ RLt(df_raw.rows[j].SCHEDULED_DEPARTURE, Num(0))
          /\ df_raw.rows[j].dep_hour = 0

\* an arrival exactly 15 minutes late is not late, a weather delay that is
\* no number is no weather delay
C21_WitnessLimits ==
    /\ pc = "loaded" /\ NRows(df_raw) = 2
    /\ \E i, j \in 1..2 :
          /\ df_raw.rows[i].ARRIVAL_DELAY = Num(15) /\ ~df_raw.rows[i].is_late_15
          /\ "WEATHER_DELAY" \in file.cols
          /\ file.rows[j].WEATHER_DELAY = Text /\ ~df_raw.rows[j].has_weather_delay

\* ------------------------------------------------------------------------
\* SpecCache, SpecDownload: the sessions' calls of load_flights and
\* load_preview.  file is flights.csv at FLIGHTS_URL, disk is data/flights.csv;
\* a chunk of the download is a row, the header going with the first.  Each
\* session runs its script in a thread of its own; st.cache_data keeps one
\* entry per function and argument, lets one thread at a time compute an
\* entry, and does not keep an exception.
\* ------------------------------------------------------------------------
\* most sessions
MaxSessions == 2
\* largest row limit asked for
MaxLimit == 2
\* longest flights.csv at FLIGHTS_URL
RemoteRows == 2

Idle == [pc |-> "idle", fn |-> "", n |-> 0, pos |-> 0, ret |-> EmptyFrame,
         hit |-> FALSE, seen |-> FALSE, exc |-> ""]

\* the entry of key n added to a store
Put(store, n, v) == [k \in DOMAIN store \cup {n} |-> IF k = n THEN v ELSE store[k]]

\* a thread is computing the entry of key n
Computing(u, n) == threads[u].pc \in {"ensure", "download", "read"} /\ threads[u].n = n

\* a script run calls fn(n): an entry of the stores is returned without
\* running the function, else the function starts
Request(t) ==
    /\ threads[t].pc \in {"idle", "returned", "failed"}
    /\ \E fn \in {"load_flights", "load_preview"}, n \in 1..MaxLimit :
          LET seen == n \in cache.asked
              call == [Idle EXCEPT !.fn = fn, !.n = n, !.seen = seen]
          IN  IF fn = "load_preview" /\ n \in DOMAIN cache.preview
              THEN /\ threads' = [threads EXCEPT ![t] =
                         [call EXCEPT !.pc = "returned", !.hit = TRUE,
                                      !.ret = cache.preview[n]]]
                   /\ UNCHANGED cache
              ELSE IF n \in DOMAIN cache.flights
              THEN /\ threads' = [threads EXCEPT ![t] =
                         [call EXCEPT !.pc = "returned", !.hit = TRUE,
                                      !.ret = cache.flights[n]]]
                   /\ cache' = IF fn = "load_preview"
                               THEN [cache EXCEPT !.preview = Put(@, n, cache.flights[n])]
                               ELSE cache
              ELSE /\ \A u \in DOMAIN threads : u # t => ~Computing(u, n)
                   /\ threads' = [threads EXCEPT ![t] = [call EXCEPT !.pc = "ensure"]]
                   /\ UNCHANGED cache
    /\ UNCHANGED disk

\* lines 22-25: nothing when the file exists, else the request, which fails
\* on an HTTP error, and open(FLIGHTS_FILE, "wb")
Ensure(t) ==
    /\ threads[t].pc = "ensure"
    /\ IF disk.exists
       THEN /\ threads' = [threads EXCEPT ![t].pc = "read"]
            /\ UNCHANGED disk
       ELSE \E ok \in BOOLEAN :
               IF ok
               THEN /\ disk' = [exists |-> TRUE, rows |-> <<>>]
                    /\ threads' = [threads EXCEPT ![t].pc = "download", ![t].pos = 0]
               ELSE /\ threads' = [threads EXCEPT ![t].pc = "failed", ![t].exc = "HTTPError"]
                    /\ UNCHANGED disk
    /\ UNCHANGED cache

\* lines 26-28: the next chunk is written at the position of this thread's
\* file object; after the last one the file is closed
Chunk(t) ==
    /\ threads[t].pc = "download"
    /\ IF threads[t].pos < Len(file.rows)
       THEN LET k == threads[t].pos + 1
            IN  /\ disk' = [disk EXCEPT !.rows =
                                IF k <= Len(@) THEN [@ EXCEPT ![k] = file.rows[k]]
                                ELSE SubSeq(file.rows, 1, k)]
                /\ threads' = [threads EXCEPT ![t].pos = k]
       ELSE /\ threads' = [threads EXCEPT ![t].pc = "read"]
            /\ UNCHANGED disk
    /\ UNCHANGED cache

\* line 26: the connection breaks, iter_content raises
Abort(t) ==
    /\ threads[t].pc = "download"
    /\ threads[t].pos < Len(file.rows)
    /\ threads' = [threads EXCEPT ![t].pc = "failed", ![t].exc = "ConnectionError"]
    /\ UNCHANGED <<disk, cache>>

\* lines 47-85, and the store of the result: pd.read_csv raises on a file
\* without a header
Read(t) ==
    /\ threads[t].pc = "read"
    /\ IF disk.rows = <<>>
       THEN /\ threads' = [threads EXCEPT ![t].pc = "failed", ![t].exc = "EmptyDataError"]
            /\ UNCHANGED cache
       ELSE LET n == threads[t].n
                df == load_flights(Table(file.cols, disk.rows), n)
            IN  /\ threads' = [threads EXCEPT ![t].pc = "returned", ![t].ret = df]
                /\ cache' = [flights |-> Put(cache.flights, n, df),
                             preview |-> IF threads[t].fn = "load_preview"
                                         THEN Put(cache.preview, n, df)
                                         ELSE cache.preview,
                             asked |-> cache.asked \cup {n}]
    /\ UNCHANGED disk

CacheRowSet ==
    {[BaseRow EXCEPT !.ARRIVAL_DELAY = ad] : ad \in {Num(0), Num(20), NaN}}

\* flights.csv at FLIGHTS_URL
RemoteFiles(n) ==
    {Table(RawCols, rows) : rows \in SeqsUpTo(CacheRowSet, n) \ {<<>>}}

InitSessions(k) ==
    /\ pc = "sessions"
    /\ file \in RemoteFiles(RemoteRows)
    /\ disk \in {Missing, [exists |-> TRUE, rows |-> file.rows]}
    /\ cache = NoCache
    /\ threads = [t \in 1..k |-> Idle]
    /\ row_limit = 0 /\ df_raw = EmptyFrame
    /\ NoSelection /\ trim_pct = 0 /\ scipy = TRUE
    /\ filtered_pre = EmptyFrame /\ filtered = EmptyFrame /\ hourly = EmptyFrame
    /\ vis_filtered = EmptyFrame /\ vis_hourly = EmptyFrame
    /\ trend_stats = TrendNA /\ ctrl_stats = TrendNA /\ anova_stats = AnovaNA
    /\ corr_dep_arr = None
    /\ done = {} /\ error = "" /\ shown = <<>> /\ heap = <<>> /\ last = NoCall
    /\ NoCharts

SessionsUnchanged ==
    <<pc, Inputs, filtered_pre, filtered, Results, done, error, shown, heap, last,
      vis_airports>>

NextCache ==
    \E t \in DOMAIN threads :
        /\ Request(t) \/ Ensure(t) \/ Chunk(t) \/ Abort(t) \/ Read(t)
        /\ UNCHANGED SessionsUnchanged

InitCache == InitSessions(MaxSessions)

SpecCache == InitCache /\ [][NextCache]_vars

\* one session
InitDownload == InitSessions(1)

NextDownload ==
    /\ Request(1) \/ Ensure(1) \/ Chunk(1) \/ Abort(1) \/ Read(1)
    /\ UNCHANGED SessionsUnchanged

SpecDownload == InitDownload /\ [][NextDownload]_vars

\* the thread t returns from a call in this step
Returns(t) == threads'[t] # threads[t] /\ threads'[t].pc = "returned"

\* C22: a request with the row limit of an earlier request is served from
\* the store without a read of the file, a request with a new row limit
\* computes, and the table returned for row limit n is the table a fresh load
\* of the file as it is at the return, with limit n, produces.
C22_CacheFresh ==
    [][\A t \in DOMAIN threads :
          Returns(t) =>
              /\ threads'[t].hit <=> threads'[t].seen
              /\ threads'[t].ret =
                     load_flights(Table(file.cols, disk'.rows), threads'[t].n)]_vars

\* the part of C22 on reuse alone
C22_Reuse ==
    \A t \in DOMAIN threads :
        threads[t].pc = "returned" => (threads[t].hit <=> threads[t].seen)

\* C23: a download that fails after some chunks were written fails the call,
\* and no later call returns a table built from the partly written file: a
\* table returned is the table built from the whole flights.csv.
C23_CompleteOrFail ==
    /\ threads[1].exc = "ConnectionError" => threads[1].pc = "failed"
    /\ threads[1].pc = "returned" => threads[1].ret = load_flights(file, threads[1].n)

\* a failed download surfaces
C23_Surfaced ==
    threads[1].exc # "" <=> threads[1].pc = "failed"

\* ------------------------------------------------------------------------
\* SpecReset: the filters of both pages over the script runs of a session.
\* A run reads the widgets and filters; between runs the user changes the
\* selections or presses "Reset filters".
\* ------------------------------------------------------------------------
\* longest loaded table of SpecReset
ResetRows == 2

ResetRowSet ==
    {[BaseRow EXCEPT !.MONTH = m, !.ORIGIN_AIRPORT = o] :
        m \in {Num(1), Num(2), NaN}, o \in {"ATL", "ORD"}}

\* default_state: every month option, nothing else
DefaultState ==
    /\ months' = NumOptions(df_raw, "MONTH")
    /\ airlines' = {} /\ origins' = {} /\ destinations' = {}

InitReset ==
    /\ pc = "sidebar"
    /\ file = EmptyFrame /\ row_limit = 0
    /\ df_raw \in {Loaded(rows) : rows \in SeqsUpTo(ResetRowSet, ResetRows) \ {<<>>}}
    /\ months = NumOptions(df_raw, "MONTH")
    /\ airlines = {} /\ origins = {} /\ destinations = {}
    /\ trim_pct = 0 /\ scipy = TRUE
    /\ filtered_pre = EmptyFrame /\ filtered = EmptyFrame /\ hourly = EmptyFrame
    /\ vis_filtered = EmptyFrame /\ vis_hourly = EmptyFrame
    /\ trend_stats = TrendNA /\ ctrl_stats = TrendNA /\ anova_stats = AnovaNA
    /\ corr_dep_arr = None
    /\ done = {"default_state"} /\ error = "" /\ shown = <<>>
    /\ heap = <<>> /\ last = NoCall /\ Offline /\ NoCharts

\* a run has filtered, or waits to
BetweenRuns == pc \in {"sidebar", "winsorize_delays", "vis_hourly_summary"}

SelectUnchanged ==
    <<file, row_limit, df_raw, trim_pct, scipy, filtered_pre, filtered, Results,
      error, shown, heap, last, disk, cache, threads, vis_airports>>

\* the user changes the multiselects, which offer the options of the table
Select ==
    /\ BetweenRuns
    /\ months' \in SUBSET NumOptions(df_raw, "MONTH")
    /\ origins' \in SUBSET CodeOptions(df_raw, "ORIGIN_AIRPORT")
    /\ airlines' \in SUBSET CodeOptions(df_raw, "AIRLINE")
    /\ destinations' = {}
    /\ pc' = "sidebar" /\ done' = {}
    /\ UNCHANGED SelectUnchanged

\* "Reset filters": the session state is set to default_state, st.rerun()
Reset ==
    /\ BetweenRuns
    /\ DefaultState
    /\ pc' = "sidebar" /\ done' = {"default_state"}
    /\ UNCHANGED SelectUnchanged

NextReset == Select \/ Reset \/ Filter \/ VisFilter

SpecReset == InitReset /\ [][NextReset]_vars

\* C24: with the default selections, at the start and after "Reset filters"
\* whatever was selected before, the filtered subset is the whole loaded
\* table: no loaded row is excluded.
C24_ResetRestoresAll ==
    "default_state" \in done =>
        /\ pc = "winsorize_delays" => filtered_pre = df_raw
        /\ pc = "vis_hourly_summary" => vis_filtered = df_raw

\* the same for the tables without a null MONTH
C24_ResetKeepsDated ==
    ("default_state" \in done
        /\ \A i \in 1..NRows(df_raw) : IsFinite(df_raw.rows[i].MONTH)) =>
        /\ pc = "winsorize_delays" => filtered_pre = df_raw
        /\ pc = "vis_hourly_summary" => vis_filtered = df_raw

\* ------------------------------------------------------------------------
\* SpecAirport: the airport chart of pages/02_Visualisaties.py on the tables
\* with given numbers of flights per origin.  The slider's minimum of flights
\* and the numbers of flights are those of the page divided by 50.
\* ------------------------------------------------------------------------
\* most flights of an origin, and the largest "Min. vluchten per luchthaven"
MaxFlights == 3

AirportCodes == <<"ATL", "ORD", "LAX", "DFW", "DEN", "JFK">>

\* lines 135-141: one row per origin, the mean delay and the number of
\* delays that are no null
AirportRow(df, o) ==
    LET delays == Field(SelectSeq(df.rows, LAMBDA r : r.ORIGIN_AIRPORT = o),
                        "ARRIVAL_DELAY")
    IN  [ORIGIN_AIRPORT |-> o, avg_delay |-> Mean(delays), count |-> Len(Valid(delays))]

\* sort_values("avg_delay", ascending=False)
RECURSIVE ByDelayDescending(_)
ByDelayDescending(S) ==
    IF S = {} THEN <<>>
    ELSE LET a == CHOOSE x \in S : \A y \in S : RGe(x.avg_delay, y.avg_delay)
         IN  <<a>> \o ByDelayDescending(S \ {a})

\* head(15)
FirstRows(s, k) == SubSeq(s, 1, IF Len(s) < k THEN Len(s) ELSE k)

RECURSIVE CountColumn(_)
CountColumn(S) ==
    IF S = {} THEN <<>>
    ELSE LET a == CHOOSE x \in S : TRUE
         IN  <<Num(a.count)>> \o CountColumn(S \ {a})

\* lines 133-146: the data of the chart
build_airport_chart(df, min_flights) ==
    LET agg == {a \in {AirportRow(df, o) : o \in Origins(df)} : a.count >= min_flights}
        hub_threshold == IF agg # {} THEN Quantile(CountColumn(agg), Rat(8, 10)) ELSE None
        flagged == {[ORIGIN_AIRPORT |-> a.ORIGIN_AIRPORT, avg_delay |-> a.avg_delay,
                     count |-> a.count,
                     is_hub |-> IF hub_threshold # None
                                THEN RGe(Num(a.count), hub_threshold) ELSE FALSE] :
                    a \in agg}
    IN  FirstRows(ByDelayDescending(flagged), 15)

\* line 295, with the slider of line 227
AirportChart ==
    /\ pc = "vis_render"
    /\ \E min_flights_airport \in 1..MaxFlights :
          vis_airports' = [min_flights |-> min_flights_airport,
                           rows |-> build_airport_chart(vis_filtered, min_flights_airport)]
    /\ pc' = "vis_rendered"
    /\ done' = done \cup {"build_airport_chart"}
    /\ UNCHANGED <<Inputs, filtered_pre, filtered, Results, error, shown, heap, last,
                   disk, cache, threads>>

\* counts[k] flights from the k-th origin
RECURSIVE FlightsFrom(_, _)
FlightsFrom(counts, k) ==
    IF k > Len(counts) THEN <<>>
    ELSE [i \in 1..counts[k] |-> [BaseRow EXCEPT !.ORIGIN_AIRPORT = AirportCodes[k]]]
         \o FlightsFrom(counts, k + 1)

AirportTables(n) ==
    {Loaded(FlightsFrom(counts, 1)) :
        counts \in {c \in [1..Len(AirportCodes) -> 0..n] : \E k \in DOMAIN c : c[k] > 0}}

InitAirport ==
    /\ pc = "sidebar"
    /\ file = EmptyFrame /\ row_limit = 0
    /\ df_raw \in AirportTables(MaxFlights)
    /\ NoSelection /\ trim_pct = 0 /\ scipy = TRUE
    /\ filtered_pre = EmptyFrame /\ filtered = EmptyFrame /\ hourly = EmptyFrame
    /\ vis_filtered = EmptyFrame /\ vis_hourly = EmptyFrame
    /\ trend_stats = TrendNA /\ ctrl_stats = TrendNA /\ anova_stats = AnovaNA
    /\ corr_dep_arr = None
    /\ done = {} /\ error = "" /\ shown = <<>>
    /\ heap = <<>> /\ last = NoCall /\ Offline /\ NoCharts

NextAirport == VisFilter \/ VisHourly \/ AirportChart

SpecAirport == InitAirport /\ [][NextAirport]_vars

\* the statistics page flags the flights from origin o of table df as hub
StatHub(df, o) ==
    \E i \in 1..NRows(df) :
        LET r == hub_flag(df, Rat(8, 10)).rows[i]
        IN  r.ORIGIN_AIRPORT = o /\ r.is_hub

\* C25: for the same filtered subset the airport chart flags an origin as hub
\* under the rule of hub_flag, a number of flights >= the 0.8-quantile of the
\* numbers of flights of all origins of the subset, whatever the minimum of
\* flights per airport.
C25_SameHubRule ==
    pc = "vis_rendered" =>
        \A k \in 1..Len(vis_airports.rows) :
            vis_airports.rows[k].is_hub
                <=> StatHub(vis_filtered, vis_airports.rows[k].ORIGIN_AIRPORT)

\* the same when the minimum of flights leaves every origin in the chart
C25_SameRuleUnfiltered ==
    (pc = "vis_rendered"
        /\ Len(vis_airports.rows) = Cardinality(Origins(vis_filtered))) =>
        \A k \in 1..Len(vis_airports.rows) :
            vis_airports.rows[k].is_hub
                <=> StatHub(vis_filtered, vis_airports.rows[k].ORIGIN_AIRPORT)

=============================================================================
